---- MODULE Spec2Model ----
(***************************************************************************)
(* Model of the reshape migration engine: the advisory lock front end      *)
(* (Lock::lock), the persisted state machine (State) and the orchestrator  *)
(* functions migrate, complete and abort, one model step per database      *)
(* statement so that a crash can fall between any two of them.             *)
(***************************************************************************)
EXTENDS Integers, Sequences, FiniteSets, TLC

\* ---------------------------------------------------------------- bounds
\* number of distinct migration names the plans are drawn from
MaxNames == 2
\* largest n of a user supplied Range::Number(n)
MaxNumber == 2
\* nested migrate frames whose begin failed and that wait for their abort
MaxDepth == 1
\* the LIMIT of one page of get_migrations, scaled down from 100
PageLimit == 2
\* longest ledger and longest provided list remaining_migrations is run on
MaxRows == 4
MaxProvided == 5
\* invocations of action methods, and row writes, on one database
MaxCalls == 4
\* rows of the table under the up trigger, and the largest value of its
\* existing column
MaxTriggerRows == 2
MaxValue == 2

\* usize::MAX.  The width is scaled from 64 to 16 bits: the checker's
\* integers are 32 bits wide, and only wrap-around to the top of the range
\* matters to the code modelled here.
USIZE_MAX == 65535
USIZE_MOD == USIZE_MAX + 1

Inst == {1, 2}
Names == 1..MaxNames

\* ------------------------------------------------------------ migrations
\* The migration whose name is VariantName comes in two versions with the
\* same name and different actions (M and M').
VariantName == MaxNames

Migration(n, acts) == [name |-> n, actions |-> acts]

\* the full plan, with either version of the migration called VariantName
FullPlan(variant) ==
    [n \in Names |->
        IF n = VariantName /\ variant
        THEN Migration(n, <<"add_column">>)
        ELSE Migration(n, <<"add_column", "add_index">>)]

\* the plans a caller may supply: the full plans, each of their prefixes (the
\* plan files of earlier releases) and the full plans without their first
\* migration (a plan that disagrees with a ledger that is not empty)
Plans ==
    {SubSeq(FullPlan(v), 1, n) : v \in BOOLEAN, n \in 0..MaxNames}
        \cup {SubSeq(FullPlan(v), 2, MaxNames) : v \in BOOLEAN}

Range_All == [kind |-> "All", n |-> 0, name |-> 0]
Range_Number(n) == [kind |-> "Number", n |-> n, name |-> 0]
Range_UpTo(m) == [kind |-> "UpTo", n |-> 0, name |-> m]

Ranges ==
    {Range_All} \cup {Range_Number(n) : n \in 0..MaxNumber}
        \cup {Range_UpTo(m) : m \in Names}

\* serde_json::to_string of an action
Serialize(action) == <<"type", action>>

\* a comparison that zips the serialized actions without comparing the
\* lengths: zip stops at the end of the shorter list
MigrationEq_zip_only(a, b) ==
    /\ a.name = b.name
    /\ \A x \in 1..(IF Len(a.actions) < Len(b.actions)
                     THEN Len(a.actions) ELSE Len(b.actions)) :
            Serialize(a.actions[x]) = Serialize(b.actions[x])

\* impl PartialEq for Migration: name, number of actions, serialized actions

MigrationEq(a, b) ==
    /\ a.name = b.name
    /\ Len(a.actions) = Len(b.actions)
    /\ \A x \in 1..Len(a.actions) : Serialize(a.actions[x]) = Serialize(b.actions[x])

\* equality of two Vec<Migration> / slices
SliceEq(s, t) ==
    /\ Len(s) = Len(t)
    /\ \A x \in 1..Len(s) : MigrationEq(s[x], t[x])

\* Vec::get(0..n): None when the range is out of bounds
GetPrefix(s, n) ==
    IF n <= Len(s) THEN [some |-> TRUE, v |-> SubSeq(s, 1, n)]
    ELSE [some |-> FALSE, v |-> <<>>]

\* position of the first migration called name, 0 when there is none
RECURSIVE PositionFrom(_, _, _)
PositionFrom(s, name, x) ==
    IF x > Len(s) THEN 0
    ELSE IF s[x].name = name THEN x
    ELSE PositionFrom(s, name, x + 1)

Position(s, name) == PositionFrom(s, name, 1)

NamesOf(s) == [x \in 1..Len(s) |-> s[x].name]

Min(a, b) == IF a < b THEN a ELSE b

\* ------------------------------------------------------- persisted State
State_Idle == [tag |-> "Idle", migrations |-> <<>>, i |-> 0, j |-> 0]
State_Applying(ms) == [tag |-> "Applying", migrations |-> ms, i |-> 0, j |-> 0]
State_InProgress(ms) == [tag |-> "InProgress", migrations |-> ms, i |-> 0, j |-> 0]
State_Completing(ms, mi, ai) == [tag |-> "Completing", migrations |-> ms, i |-> mi, j |-> ai]
State_Aborting(ms, mi, ai) == [tag |-> "Aborting", migrations |-> ms, i |-> mi, j |-> ai]

\* remaining_migrations as migrate and status see it on the short ledgers of
\* the engine model, the rows arriving in index order: every ledger row must
\* match the provided migration at the same position by name
RECURSIVE MatchLedger(_, _, _)
MatchLedger(rows, provided, n) ==
    IF n = Len(rows) THEN [ok |-> TRUE, rest |-> SubSeq(provided, n + 1, Len(provided))]
    ELSE IF n >= Len(provided) THEN [ok |-> FALSE, rest |-> <<>>]
    ELSE IF rows[n + 1] # provided[n + 1].name THEN [ok |-> FALSE, rest |-> <<>>]
    ELSE MatchLedger(rows, provided, n + 1)

remaining_migrations(rows, provided) == MatchLedger(rows, provided, 0)

\* ------------------------------------------------------------- variables
VARIABLES
    lockHolder,   \* session holding the advisory lock, 0 when free
    dbState,      \* reshape.data, key 'state'
    ledger,       \* reshape.migrations: names in index order
    schemas,      \* names m for which schema migration_<m> exists
    helper,       \* target of reshape.is_new_schema(), 0 when not installed
    artefacts,    \* <<name, action index>> whose begin ran and is not undone
    completed,    \* <<name, action index>> whose complete ran
    proc,         \* per engine instance: the call in flight, its locals and
                  \* the log of the begin, abort and complete it invoked
    dirty,        \* the database was written since the lock was last acquired
    lastWriter,   \* the operation that made the most recent database write
    lastRet,      \* how the most recent call ended
    begun,        \* <<name, action index, migration index>>: the context of
                  \* the most recent begin of each action in artefacts
    rm,           \* one run of remaining_migrations over a ledger of any length
    rt,           \* one run of retry_automatically on a statement
    ph,           \* one database under the methods of one or two actions
    tg,           \* one table under the up trigger of add_column and its writers
    eq,           \* one comparison of two migrations
    ov,           \* one overlay under its changes, and one lookup in it
    lv            \* the command that is run until it ends, and how many
                  \* times it was interrupted

vars == <<lockHolder, dbState, ledger, schemas, helper, artefacts, completed,
          proc, dirty, lastWriter, lastRet, begun, rm, rt, ph, tg, eq, ov,
          lv>>

dbVars == <<dbState, ledger, schemas, helper, artefacts, completed>>

\* the variables of the orchestrators, and those of the functions that are
\* modelled on their own
engineVars == <<lockHolder, dbVars, proc, dirty, lastWriter, lastRet, begun>>
unitVars == <<rm, rt, ph, tg, eq, ov, lv>>

NoOp == [kind |-> "none", plan |-> <<>>, range |-> Range_All]

\* the locals of remaining_migrations when started on the ledger rows (names
\* in index order, the index of a row being its position) and the provided
\* migrations: new_iter as the number of migrations taken from it,
\* highest_index (0 for None) and the page being matched
RM_Start(rows, provided) ==
    [pc |-> "page", rows |-> rows, provided |-> provided, taken |-> 0,
     highest_index |-> 0, page |-> <<>>, res |-> "none", items |-> <<>>]

RM_Off == [RM_Start(<<>>, <<>>) EXCEPT !.pc = "off"]

\* the locals of retry_automatically at its first line, with the outcomes of
\* the attempts made so far
RT_Start ==
    [on |-> "Postgres", pc |-> "call", attempts |-> 0, outcomes |-> <<>>,
     wait |-> 0, slept |-> 0, res |-> "none"]

RT_Off == [RT_Start EXCEPT !.pc = "off"]

\* schema public as the actions see it: the tables, and per table the added
\* column, its NOT NULL flag, the constraints, indexes and triggers, then the
\* enums and functions, and the number of rows of each table
TableNames == {"A", "B"}

NoObjects ==
    [tables |-> {}, columns |-> {}, not_null |-> {}, constraints |-> {},
     indexes |-> {}, enums |-> {}, functions |-> {}, triggers |-> {},
     rows |-> [t \in TableNames |-> 0]]

\* no action under test
PH_Off ==
    [sub |-> <<>>, pre |-> NoObjects, db |-> NoObjects, schema |-> <<>>,
     hist |-> <<>>]

\* a table with an added column, the migration the helper names as target,
\* and the most recent write
NoWrite ==
    [kind |-> "none", search_path |-> <<"", 0>>, setting |-> "NULL", id |-> 0,
     column |-> 0]

TG_Start(target) ==
    [on |-> TRUE, target |-> target, rows |-> <<>>, last |-> NoWrite]

TG_Off == [TG_Start(0) EXCEPT !.on = FALSE]

\* two migrations as read from their files, and the result of comparing them
NoMigration == [name |-> 0, description |-> "", actions |-> <<>>]

EQ_Start(a, b) == [pc |-> "compare", a |-> a, b |-> b, res |-> FALSE]

EQ_Off == [EQ_Start(NoMigration, NoMigration) EXCEPT !.pc = "off"]

\* an overlay, the number of changes made to it so far, the table looked up in
\* it and the Table returned
NoTable == [name |-> "", real_name |-> "", columns |-> <<>>]

OV_Start ==
    [pc |-> "change", schema |-> <<>>, n |-> 0, asked |-> "", res |-> NoTable]

OV_Off == [OV_Start EXCEPT !.pc = "off"]

\* no command is being run to its end
LV_Off == [cmd |-> "none", interruptions |-> 0]

\* the locals of a call that is not running
FreshProc ==
    [ipc |-> "ready", op |-> NoOp, rerun |-> FALSE, loaded |-> State_Idle,
     rows |-> <<>>,
     pc |-> "none", mem |-> State_Idle, provided |-> <<>>, range |-> Range_All,
     rem |-> <<>>, k |-> 0, lmi |-> 0, lai |-> 0, mi |-> 0, ai |-> 0,
     target |-> 0, pending |-> 0, res |-> "none", invoked |-> {}, log |-> <<>>]

NoRet ==
    [inst |-> 0, res |-> "none", kind |-> "none", range |-> Range_All,
     rerun |-> FALSE,
     from |-> "none", names |-> {}, failed |-> FALSE, leftover |-> {}]

\* what is recorded of the call p of instance i when it ends with r: the
\* operation, whether it repeated a migrate that had crashed, the state it
\* loaded, whether a begin failed, and the actions begun in the call whose
\* artefacts (arts) are still there
RetOf(i, p, r, arts) ==
    [inst |-> i, res |-> r, kind |-> p.op.kind, range |-> p.op.range,
     rerun |-> p.rerun,
     from |-> p.loaded.tag,
     names |-> {p.loaded.migrations[x].name : x \in 1..Len(p.loaded.migrations)},
     failed |-> p.pending > 0, leftover |-> p.invoked \cap arts]

Init ==
    /\ lockHolder = 0
    /\ dbState = State_Idle
    /\ ledger = <<>>
    /\ schemas = {}
    /\ helper = 0
    /\ artefacts = {}
    /\ completed = {}
    /\ proc = [i \in Inst |-> FreshProc]
    /\ dirty = FALSE
    /\ lastWriter = "none"
    /\ lastRet = NoRet
    /\ begun = {}
    /\ rm = RM_Off
    /\ rt = RT_Off
    /\ ph = PH_Off
    /\ tg = TG_Off
    /\ eq = EQ_Off
    /\ ov = OV_Off
    /\ lv = LV_Off

\* --------------------------------------------------------- Lock front end
Ops ==
    {[kind |-> "migrate", plan |-> p, range |-> r] : p \in Plans, r \in Ranges}
        \cup {[kind |-> "abort", plan |-> <<>>, range |-> r] : r \in Ranges}
        \cup {[kind |-> "complete", plan |-> <<>>, range |-> Range_All],
              [kind |-> "status", plan |-> <<>>, range |-> Range_All]}

\* the calls of the two-instance specification: the plans of one release
\* history (nothing to apply, the first migration, the full plan) and the
\* other operations, over the whole range
LockOps ==
    {o \in Ops : /\ o.range = Range_All
                 /\ \E n \in {0, 1, MaxNames} : o.plan = SubSeq(FullPlan(FALSE), 1, n)}

\* an acquire_lock that ignores the answer of pg_try_advisory_lock
acquire_lock_unchecked(i) == TRUE

\* Lock::acquire_lock: pg_try_advisory_lock succeeds iff no other session
\* holds the key
acquire_lock(i) == lockHolder = 0

\* the entry point of an operation
EntryOf(kind) ==
    CASE kind = "migrate" -> "m_entry"
      [] kind = "abort" -> "a_entry"
      [] kind = "complete" -> "c_entry"
      [] OTHER -> "s_entry"

\* Reshape::migrate / complete / abort / status, one of the calls O, entering
\* Lock::lock: acquire_lock, then the closure starts with State::load
Call(i, O) ==
    /\ proc[i].ipc = "ready"
    /\ IF acquire_lock(i)
       THEN /\ lockHolder' = i
            /\ \E o \in O :
                 proc' = [proc EXCEPT ![i] =
                    [FreshProc EXCEPT !.ipc = "running", !.op = o,
                                      !.loaded = dbState, !.mem = dbState,
                                      !.rows = ledger,
                                      !.pc = EntryOf(o.kind),
                                      !.provided = o.plan, !.range = o.range]]
            /\ lastRet' = NoRet
            /\ dirty' = FALSE
       ELSE /\ lastRet' = [NoRet EXCEPT !.inst = i, !.res = "AnotherInstanceRunning"]
            /\ UNCHANGED <<lockHolder, proc, dirty>>
    /\ UNCHANGED <<dbVars, lastWriter, begun, unitVars>>

Running(i, pc) == proc[i].ipc = "running" /\ proc[i].pc = pc

\* the closure returns r
Ret(p, r) == [p EXCEPT !.pc = "release", !.res = r]

\* migrate, complete or abort returns r.  Every migrate frame whose begin
\* failed is waiting in `abort(..)?; return Err(err)`: an error goes through,
\* and on Ok the frame returns its own begin error.
Return(p, r) ==
    Ret(p, IF p.pending = 0 THEN r ELSE IF r = "Ok" THEN "MigrationFailed" ELSE r)

\* the closure panics
Panic(p) == [p EXCEPT !.pc = "panic"]

\* Lock::release_lock: pg_advisory_unlock
release_lock(i) == IF lockHolder = i THEN 0 ELSE lockHolder

\* MigrationContext::new(migration_index, action_index, ..) of the apply loop:
\* when the step from p to q invoked a begin, its context is the one the
\* action's temporary objects are named after, for as long as they (arts) exist
BegunAfter(p, q, arts) ==
    LET known ==
            IF Len(q.log) > Len(p.log) /\ q.log[Len(q.log)][1] = "begin"
            THEN LET e == q.log[Len(q.log)]
                     name == p.rem[e[2] + 1].name
                 IN  {c \in begun : <<c[1], c[2]>> # <<name, e[3]>>}
                        \cup {<<name, e[3], e[2]>>}
            ELSE begun
    IN  {c \in known : <<c[1], c[2]>> \in arts}

\* the rest of Lock::lock once the closure has made a step to q: while it
\* runs the lock stays held; when it returns, release_lock runs and the
\* result is handed back; when it panics, the stack unwinds through
\* Lock::lock, which has no guard that would run release_lock
Go(i, q) ==
    /\ UNCHANGED unitVars
    /\ begun' = BegunAfter(proc[i], q, artefacts')
    /\ dirty' = (dirty \/ dbVars' # dbVars)
    /\ lastWriter' = IF dbVars' # dbVars THEN proc[i].op.kind ELSE lastWriter
    /\ CASE q.pc = "release" ->
               /\ lockHolder' = release_lock(i)
               /\ proc' = [proc EXCEPT ![i] = FreshProc]
               /\ lastRet' = RetOf(i, q, q.res, artefacts')
         [] q.pc = "panic" ->
               /\ proc' = [proc EXCEPT ![i] = [FreshProc EXCEPT !.ipc = "panicked"]]
               /\ lastRet' = RetOf(i, q, "panic", artefacts')
               /\ UNCHANGED lockHolder
         [] OTHER ->
               /\ proc' = [proc EXCEPT ![i] = q]
               /\ UNCHANGED <<lockHolder, lastRet>>

\* status only reads: it fails when the plan disagrees with the ledger
Status(i) ==
    /\ Running(i, "s_entry")
    /\ UNCHANGED dbVars
    /\ Go(i, Ret(proc[i], IF remaining_migrations(ledger, proc[i].provided).ok
                          THEN "Ok" ELSE "InconsistentHistory"))

\* the session of a panicked call ends (the Reshape value is dropped or the
\* process exits): PostgreSQL releases the session's advisory lock
EndSession(i) ==
    /\ proc[i].ipc = "panicked"
    /\ lockHolder' = release_lock(i)
    /\ proc' = [proc EXCEPT ![i] = FreshProc]
    /\ lastRet' = NoRet
    /\ UNCHANGED <<dbVars, dirty, lastWriter, begun, unitVars>>

\* the process dies in the middle of a call
Crash(i) ==
    /\ proc[i].ipc = "running"
    /\ lockHolder' = release_lock(i)
    /\ proc' = [proc EXCEPT ![i] = FreshProc]
    /\ lastRet' = [NoRet EXCEPT !.inst = i, !.kind = proc[i].op.kind, !.res = "crash"]
    /\ UNCHANGED <<dbVars, dirty, lastWriter, begun, unitVars>>

\* the process dies in the middle of migrate and the same command is run
\* again at once: the session's lock goes away with the process and the new
\* process acquires it before any other instance calls
Rerun(i) ==
    /\ proc[i].ipc = "running"
    /\ proc[i].op.kind = "migrate"
    /\ ~proc[i].rerun
    /\ proc' = [proc EXCEPT ![i] =
            [FreshProc EXCEPT !.ipc = "running", !.op = proc[i].op, !.rerun = TRUE,
                              !.loaded = dbState, !.mem = dbState, !.rows = ledger,
                              !.pc = EntryOf("migrate"),
                              !.provided = proc[i].op.plan, !.range = proc[i].op.range]]
    /\ dirty' = FALSE
    /\ UNCHANGED <<lockHolder, dbVars, lastWriter, lastRet, begun, unitVars>>

\* ----------------------------------------------------------------- migrate
Actions(p, m) == p.rem[m + 1].actions

\* narrowing by Range::Number in the InProgress and Applying branches
NarrowNumber(range, rem, existing) ==
    IF range.kind = "Number"
    THEN SubSeq(rem, 1, Min(Len(rem), range.n + Len(existing)))
    ELSE rem

\* an InProgress branch that compares nothing
MigrateInProgress_unchecked(p, rem1) ==
    LET existing == p.mem.migrations
        rem2 == NarrowNumber(p.range, rem1, existing)
    IN  IF Len(existing) = Len(rem1) THEN Return(p, "Ok")
        ELSE IF rem2 = <<>> THEN Return(p, "Ok")
        ELSE IF existing = <<>> THEN Panic(p)
        ELSE [p EXCEPT !.rem = rem2, !.mem = State_InProgress(rem2),
                       !.target = existing[Len(existing)].name,
                       !.pc = "m_drop_existing"]

\* the InProgress branch of migrate, up to the point where the schema of the
\* migration in progress is dropped
MigrateInProgress(p, rem1) ==
    LET existing == p.mem.migrations
        got == GetPrefix(rem1, Len(existing))
        rem2 == NarrowNumber(p.range, rem1, existing)
    IN  IF ~(got.some /\ SliceEq(existing, got.v)) THEN Return(p, "DivergentHistory")
        ELSE IF Len(existing) = Len(rem1) THEN Return(p, "Ok")
        ELSE IF rem2 = <<>> THEN Return(p, "Ok")
        ELSE IF existing = <<>> THEN Panic(p)
        ELSE [p EXCEPT !.rem = rem2, !.mem = State_InProgress(rem2),
                       !.target = existing[Len(existing)].name,
                       !.pc = "m_drop_existing"]

\* the Applying branch of migrate: the slice remaining[0..existing.len()]
\* panics when remaining is shorter than existing
MigrateApplying(p, rem1) ==
    LET existing == p.mem.migrations
        rem2 == NarrowNumber(p.range, rem1, existing)
    IN  IF Len(existing) > Len(rem1) THEN Panic(p)
        ELSE IF ~SliceEq(existing, SubSeq(rem1, 1, Len(existing)))
        THEN Return(p, "DirtyApplying")
        ELSE IF rem2 = <<>> THEN Return(p, "Ok")
        ELSE [p EXCEPT !.rem = rem2, !.mem = State_Applying(rem2),
                       !.pc = "m_save_applying"]

\* migrate from its first line to its first write
MigrateEntry_unguarded(p, rows) ==
    LET r == remaining_migrations(rows, p.provided)
        pos == Position(r.rest, p.range.name)
        rem1 == IF p.range.kind = "UpTo" THEN SubSeq(r.rest, 1, pos) ELSE r.rest
    IN  IF ~r.ok THEN Return(p, "InconsistentHistory")
        ELSE IF p.range.kind = "UpTo" /\ pos = 0 THEN Return(p, "MigrationNotFound")
        ELSE IF p.mem.tag = "InProgress" THEN MigrateInProgress(p, rem1)
        ELSE IF p.mem.tag = "Applying" THEN MigrateApplying(p, rem1)
        ELSE [p EXCEPT !.rem = rem1, !.mem = State_Applying(rem1),
                       !.pc = "m_save_applying"]

MigrateEntry(p, rows) ==
    LET r == remaining_migrations(rows, p.provided)
        pos == Position(r.rest, p.range.name)
        rem1 == IF p.range.kind = "UpTo" THEN SubSeq(r.rest, 1, pos) ELSE r.rest
    IN  IF p.mem.tag = "Completing" THEN Return(p, "Ok")
        ELSE IF p.mem.tag = "Aborting" THEN Return(p, "AbortInProgress")
        ELSE IF ~r.ok THEN Return(p, "InconsistentHistory")
        ELSE IF p.range.kind = "UpTo" /\ pos = 0 THEN Return(p, "MigrationNotFound")
        ELSE IF p.mem.tag = "InProgress" THEN MigrateInProgress(p, rem1)
        ELSE IF p.mem.tag = "Applying" THEN MigrateApplying(p, rem1)
        ELSE [p EXCEPT !.rem = rem1, !.mem = State_Applying(rem1),
                       !.pc = "m_save_applying"]

M_Entry(i) ==
    /\ Running(i, "m_entry")
    /\ UNCHANGED dbVars
    /\ Go(i, MigrateEntry(proc[i], ledger))

\* DROP SCHEMA of the migration in progress, then abort(Range::Number(0))
M_DropExisting(i) ==
    /\ Running(i, "m_drop_existing")
    /\ UNCHANGED <<dbState, ledger, helper, artefacts, completed>>
    /\ schemas' = schemas \ {proc[i].target}
    /\ Go(i, [proc[i] EXCEPT !.range = Range_Number(0), !.pc = "a_entry"])

\* a migrate that goes on to the apply loop without saving Applying
M_SaveApplying_skipped(i) ==
    /\ Running(i, "m_save_applying")
    /\ UNCHANGED dbVars
    /\ Go(i, [proc[i] EXCEPT !.pc = "m_helper"])

\* state.applying(remaining); state.save(db)
M_SaveApplying(i) ==
    /\ Running(i, "m_save_applying")
    /\ UNCHANGED <<ledger, schemas, helper, artefacts, completed>>
    /\ dbState' = proc[i].mem
    /\ Go(i, [proc[i] EXCEPT !.pc = "m_helper"])

\* remaining.last().unwrap(), create_new_schema_func
M_Helper(i) ==
    /\ Running(i, "m_helper")
    /\ UNCHANGED <<dbState, ledger, schemas, artefacts, completed>>
    /\ LET p == proc[i] IN
        IF p.rem = <<>>
        THEN /\ UNCHANGED helper
             /\ Go(i, Panic(p))
        ELSE /\ helper' = p.rem[Len(p.rem)].name
             /\ Go(i, [p EXCEPT !.target = p.rem[Len(p.rem)].name,
                              !.lmi = USIZE_MAX, !.lai = USIZE_MAX,
                              !.mi = 0, !.ai = 0, !.pc = "m_begin"])

\* the position after (mi, ai) in the apply loop
AfterBegin(p) ==
    IF p.ai + 1 < Len(Actions(p, p.mi)) THEN [p EXCEPT !.ai = p.ai + 1]
    ELSE IF p.mi + 1 < Len(p.rem) THEN [p EXCEPT !.mi = p.mi + 1, !.ai = 0]
    ELSE [p EXCEPT !.pc = "m_views"]

\* begin failed at (mi, ai): state.aborting(remaining, mi + 1, ai + 1), not
\* saved, then abort(Range::Number(remaining.len() - mi + 1))
BeginFailed(p) ==
    [p EXCEPT !.mem = State_Aborting(p.rem, p.mi + 1, p.ai + 1),
              !.pending = p.pending + 1,
              !.range = Range_Number(Len(p.rem) - p.mi + 1),
              !.pc = "a_entry"]

\* one iteration of the apply loop: action.begin at (mi, ai)
M_Begin(i) ==
    /\ Running(i, "m_begin")
    /\ UNCHANGED <<dbState, ledger, schemas, helper, completed>>
    /\ LET p == proc[i]
           key == <<p.rem[p.mi + 1].name, p.ai>>
           q == [p EXCEPT !.lmi = p.mi, !.lai = p.ai,
                          !.invoked = p.invoked \cup {key},
                          !.log = Append(p.log, <<"begin", p.mi, p.ai>>)]
       IN  /\ artefacts' = artefacts \cup {key}
           /\ \/ Go(i, AfterBegin(q))
              \/ /\ p.pending < MaxDepth
                 /\ Go(i, BeginFailed(q))

\* Schema::create_for_migration
M_Views(i) ==
    /\ Running(i, "m_views")
    /\ UNCHANGED <<dbState, ledger, helper, artefacts, completed>>
    /\ schemas' = schemas \cup {proc[i].target}
    /\ Go(i, [proc[i] EXCEPT !.pc = "m_save_in_progress"])

\* state.in_progress(remaining); state.save(db); Ok(())
M_SaveInProgress(i) ==
    /\ Running(i, "m_save_in_progress")
    /\ UNCHANGED <<ledger, schemas, helper, artefacts, completed>>
    /\ dbState' = State_InProgress(proc[i].rem)
    /\ LET p == proc[i] IN
        Go(i, Return([p EXCEPT !.mem = State_InProgress(p.rem)], "Ok"))

\* ------------------------------------------------------------------- abort
\* usize subtraction a - b: exact when it does not underflow; otherwise the
\* build decides between a panic (overflow checks on) and wrap-around
SubUsize(a, b) ==
    IF a >= b THEN {[panic |-> FALSE, v |-> a - b]}
    ELSE {[panic |-> TRUE, v |-> 0],
          [panic |-> FALSE, v |-> (a - b + USIZE_MOD) % USIZE_MOD]}

\* an abort whose match sends Completing down the arm of InProgress
AbortEntry_completing_as_in_progress(p) ==
    IF p.mem.tag = "Idle" THEN Return(p, "Ok")
    ELSE [p EXCEPT !.rem = p.mem.migrations, !.lmi = USIZE_MAX, !.lai = USIZE_MAX,
                   !.mem = State_Aborting(p.mem.migrations, USIZE_MAX, USIZE_MAX),
                   !.pc = "a_save_first"]

\* an abort whose match sends Completing down the arm of Aborting
AbortEntry_completing_as_aborting(p) ==
    CASE p.mem.tag \in {"InProgress", "Applying"} ->
            [p EXCEPT !.rem = p.mem.migrations, !.lmi = USIZE_MAX, !.lai = USIZE_MAX,
                      !.mem = State_Aborting(p.mem.migrations, USIZE_MAX, USIZE_MAX),
                      !.pc = "a_save_first"]
      [] p.mem.tag \in {"Aborting", "Completing"} ->
            [p EXCEPT !.rem = p.mem.migrations, !.lmi = p.mem.i, !.lai = p.mem.j,
                      !.pc = "a_range"]
      [] OTHER -> Return(p, "Ok")

\* the match on the state at the top of abort
AbortEntry(p) ==
    CASE p.mem.tag \in {"InProgress", "Applying"} ->
            [p EXCEPT !.rem = p.mem.migrations, !.lmi = USIZE_MAX, !.lai = USIZE_MAX,
                      !.mem = State_Aborting(p.mem.migrations, USIZE_MAX, USIZE_MAX),
                      !.pc = "a_save_first"]
      [] p.mem.tag = "Aborting" ->
            [p EXCEPT !.rem = p.mem.migrations, !.lmi = p.mem.i, !.lai = p.mem.j,
                      !.pc = "a_range"]
      [] p.mem.tag = "Completing" -> Return(p, "CompleteInProgress")
      [] OTHER -> Return(p, "Ok")

A_Entry(i) ==
    /\ Running(i, "a_entry")
    /\ UNCHANGED dbVars
    /\ Go(i, AbortEntry(proc[i]))

\* state.aborting(migrations, MAX, MAX); state.save(db)
A_SaveFirst(i) ==
    /\ Running(i, "a_save_first")
    /\ UNCHANGED <<ledger, schemas, helper, artefacts, completed>>
    /\ dbState' = proc[i].mem
    /\ Go(i, [proc[i] EXCEPT !.pc = "a_range"])

\* migrations_up_to_index
A_Range(i) ==
    /\ Running(i, "a_range")
    /\ UNCHANGED dbVars
    /\ LET p == proc[i]
           pos == Position(p.rem, p.range.name)
       IN  CASE p.range.kind = "All" ->
                    Go(i, [p EXCEPT !.k = 0, !.pc = "a_drop_schema"])
             [] p.range.kind = "Number" ->
                    \E d \in SubUsize(Len(p.rem), p.range.n) :
                        Go(i, IF d.panic THEN Panic(p)
                            ELSE [p EXCEPT !.k = d.v, !.pc = "a_drop_schema"])
             [] OTHER ->
                    Go(i, IF pos = 0 THEN Return(p, "MigrationNotInProgress")
                        ELSE [p EXCEPT !.k = pos - 1, !.pc = "a_drop_schema"])

LastAction(p, m) == IF m >= 0 THEN Len(Actions(p, m)) - 1 ELSE 0 - 1

\* remaining.last().unwrap(), DROP SCHEMA of the target migration
A_DropSchema(i) ==
    /\ Running(i, "a_drop_schema")
    /\ UNCHANGED <<dbState, ledger, helper, artefacts, completed>>
    /\ LET p == proc[i] IN
        IF p.rem = <<>>
        THEN /\ UNCHANGED schemas
             /\ Go(i, Panic(p))
        ELSE /\ schemas' = schemas \ {p.rem[Len(p.rem)].name}
             /\ Go(i, [p EXCEPT !.mi = Len(p.rem) - 1,
                              !.ai = LastAction(p, Len(p.rem) - 1),
                              !.pc = "a_loop"])

\* the reverse loops of abort from the cursor (m, a): the next action whose
\* abort is invoked, with the skips of the code
RECURSIVE NextAbort(_, _, _)
NextAbort(p, m, a) ==
    IF m < 0 THEN [done |-> TRUE, mi |-> 0, ai |-> 0]
    ELSE IF m >= p.lmi THEN NextAbort(p, m - 1, LastAction(p, m - 1))
    ELSE IF m < p.k THEN [done |-> TRUE, mi |-> 0, ai |-> 0]
    ELSE IF a < 0 THEN NextAbort(p, m - 1, LastAction(p, m - 1))
    ELSE IF m = p.lmi - 1 /\ a >= p.lai THEN NextAbort(p, m, a - 1)
    ELSE [done |-> FALSE, mi |-> m, ai |-> a]

\* one action.abort, or the end of the loops
A_Loop(i) ==
    /\ Running(i, "a_loop")
    /\ UNCHANGED <<dbState, ledger, schemas, helper, completed>>
    /\ LET p == proc[i]
           n == NextAbort(p, p.mi, p.ai)
           key == <<p.rem[n.mi + 1].name, n.ai>>
       IN  IF n.done
           THEN /\ UNCHANGED artefacts
                /\ Go(i, [p EXCEPT !.pc = "a_drop_func"])
           ELSE \/ /\ artefacts' = artefacts \ {key}
                   /\ Go(i, [p EXCEPT !.mem = State_Aborting(p.rem, n.mi, n.ai),
                                  !.mi = n.mi, !.ai = n.ai - 1,
                                  !.log = Append(p.log, <<"abort", n.mi, n.ai>>),
                                  !.pc = "a_save_step"])
                \/ /\ UNCHANGED artefacts
                   /\ Go(i, Return(p, "AbortFailed"))

\* state.aborting(remaining, migration_index, action_index); state.save(db)
A_SaveStep(i) ==
    /\ Running(i, "a_save_step")
    /\ UNCHANGED <<ledger, schemas, helper, artefacts, completed>>
    /\ dbState' = proc[i].mem
    /\ Go(i, [proc[i] EXCEPT !.pc = "a_loop"])

\* tear_down_helpers; *state = Idle; then migrate again when the keep index
\* is not 0, else the save of Idle
A_DropFunc(i) ==
    /\ Running(i, "a_drop_func")
    /\ UNCHANGED <<dbState, ledger, schemas, artefacts, completed>>
    /\ helper' = 0
    /\ LET p == proc[i] IN
        Go(i, IF p.k # 0
            THEN [p EXCEPT !.mem = State_Idle, !.provided = p.rem,
                           !.range = Range_Number(p.k), !.pc = "m_entry"]
            ELSE [p EXCEPT !.mem = State_Idle, !.pc = "a_save_idle"])

A_SaveIdle(i) ==
    /\ Running(i, "a_save_idle")
    /\ UNCHANGED <<ledger, schemas, helper, artefacts, completed>>
    /\ dbState' = State_Idle
    /\ Go(i, Return(proc[i], "Ok"))

\* ---------------------------------------------------------------- complete
CompleteEntry(p) ==
    CASE p.mem.tag = "InProgress" ->
            [p EXCEPT !.rem = p.mem.migrations, !.lmi = 0, !.lai = 0,
                      !.mem = State_Completing(p.mem.migrations, 0, 0),
                      !.pc = "c_save_first"]
      [] p.mem.tag = "Completing" ->
            [p EXCEPT !.rem = p.mem.migrations, !.lmi = p.mem.i, !.lai = p.mem.j,
                      !.pc = "c_drop_prev"]
      [] p.mem.tag = "Aborting" -> Return(p, "AbortInProgress")
      [] p.mem.tag = "Applying" -> Return(p, "PreviousMigrationFailed")
      [] OTHER -> Return(p, "Ok")

C_Entry(i) ==
    /\ Running(i, "c_entry")
    /\ UNCHANGED dbVars
    /\ Go(i, CompleteEntry(proc[i]))

\* state.completing(migrations, 0, 0); state.save(db)
C_SaveFirst(i) ==
    /\ Running(i, "c_save_first")
    /\ UNCHANGED <<ledger, schemas, helper, artefacts, completed>>
    /\ dbState' = proc[i].mem
    /\ Go(i, [proc[i] EXCEPT !.pc = "c_drop_prev"])

\* current_migration: the name of the last ledger row, 0 for None
current_migration(rows) == IF rows = <<>> THEN 0 ELSE rows[Len(rows)]

\* DROP SCHEMA of the previous migration
C_DropPrev(i) ==
    /\ Running(i, "c_drop_prev")
    /\ UNCHANGED <<dbState, ledger, helper, artefacts, completed>>
    /\ schemas' = schemas \ {current_migration(ledger)}
    /\ Go(i, [proc[i] EXCEPT !.mi = 0, !.ai = 0, !.pc = "c_loop"])

\* the loops of complete from the cursor (m, a): the next action whose
\* complete is invoked, with the skips of the code
RECURSIVE NextComplete(_, _, _)
NextComplete(p, m, a) ==
    IF m >= Len(p.rem) THEN [done |-> TRUE, mi |-> 0, ai |-> 0]
    ELSE IF m < p.lmi THEN NextComplete(p, m + 1, 0)
    ELSE IF a >= Len(Actions(p, m)) THEN NextComplete(p, m + 1, 0)
    ELSE IF m = p.lmi /\ a < p.lai THEN NextComplete(p, m, a + 1)
    ELSE [done |-> FALSE, mi |-> m, ai |-> a]

\* one action.complete, or the end of the loops.  An action that returns a
\* transaction has the state saved and committed with its own effects.
C_Loop(i) ==
    /\ Running(i, "c_loop")
    /\ UNCHANGED <<ledger, schemas, helper>>
    /\ LET p == proc[i]
           n == NextComplete(p, p.mi, p.ai)
           key == <<p.rem[n.mi + 1].name, n.ai>>
           st == State_Completing(p.rem, n.mi + 1, n.ai + 1)
       IN  IF n.done
           THEN /\ UNCHANGED <<dbState, artefacts, completed>>
                /\ Go(i, [p EXCEPT !.pc = "c_drop_func"])
           ELSE \/ /\ artefacts' = artefacts \ {key}
                   /\ completed' = completed \cup {key}
                   /\ \/ /\ UNCHANGED dbState
                         /\ Go(i, [p EXCEPT !.mem = st, !.mi = n.mi, !.ai = n.ai + 1,
                                          !.log = Append(p.log, <<"complete", n.mi, n.ai>>),
                                          !.pc = "c_save_step"])
                      \/ /\ dbState' = st
                         /\ Go(i, [p EXCEPT !.mem = st, !.mi = n.mi, !.ai = n.ai + 1,
                                          !.log = Append(p.log, <<"complete", n.mi, n.ai>>)])
                \/ /\ UNCHANGED <<dbState, artefacts, completed>>
                   /\ Go(i, Return([p EXCEPT !.mem = st], "CompleteFailed"))

\* state.save(db) after an action that returned no transaction
C_SaveStep(i) ==
    /\ Running(i, "c_save_step")
    /\ UNCHANGED <<ledger, schemas, helper, artefacts, completed>>
    /\ dbState' = proc[i].mem
    /\ Go(i, [proc[i] EXCEPT !.pc = "c_loop"])

\* drop_new_schema_func
C_DropFunc(i) ==
    /\ Running(i, "c_drop_func")
    /\ UNCHANGED <<dbState, ledger, schemas, artefacts, completed>>
    /\ helper' = 0
    /\ Go(i, [proc[i] EXCEPT !.pc = "c_final"])

\* a save_migrations that leaves out the first migration
save_migrations_skip_first(rows, migrations) ==
    rows \o NamesOf(SubSeq(migrations, 2, Len(migrations)))

\* save_migrations appends one ledger row per migration, in order
save_migrations(rows, migrations) == rows \o NamesOf(migrations)

\* a complete_transaction without the transaction: the ledger rows are
\* committed first and State::Idle after them
C_Final_in_two_steps(i) ==
    /\ Running(i, "c_final")
    /\ UNCHANGED <<schemas, helper, artefacts, completed>>
    /\ IF dbState.tag = "Completing" /\ ledger = proc[i].rows
       THEN /\ ledger' = save_migrations(ledger, proc[i].rem)
            /\ UNCHANGED dbState
            /\ Go(i, proc[i])
       ELSE /\ UNCHANGED ledger
            /\ dbState' = State_Idle
            /\ Go(i, Return([proc[i] EXCEPT !.mem = State_Idle], "Ok"))

\* complete_transaction: the ledger rows and State::Idle in one transaction
C_Final(i) ==
    /\ Running(i, "c_final")
    /\ UNCHANGED <<schemas, helper, artefacts, completed>>
    /\ ledger' = save_migrations(ledger, proc[i].rem)
    /\ dbState' = State_Idle
    /\ Go(i, Return([proc[i] EXCEPT !.mem = State_Idle], "Ok"))

\* ---------------------------------------------- remaining_migrations, paged
\* the sequences of at most n distinct row indices out of 1..len, in any order
Pages(len, n) ==
    {s \in UNION {[1..c -> 1..len] : c \in {Min(n, len)}} :
        \A x, y \in DOMAIN s : x # y => s[x] # s[y]}

\* get_migrations: with Some(index) the query is `WHERE index > $1 ORDER BY
\* index ASC LIMIT 100`, one answer; with None the query is `LIMIT 100`
\* without ORDER BY, and the server may answer with any rows in any order
get_migrations(rows, index_larger_than) ==
    IF index_larger_than = 0
    THEN Pages(Len(rows), PageLimit)
    ELSE {[x \in 1..Min(PageLimit, Len(rows) - Min(index_larger_than, Len(rows))) |->
            index_larger_than + x]}

\* the head of the loop of remaining_migrations: fetch a page; an empty page
\* ends the loop and the rest of new_iter is returned
RemainingPage ==
    /\ rm.pc = "page"
    /\ \E page \in get_migrations(rm.rows, rm.highest_index) :
        rm' = IF page = <<>>
              THEN [rm EXCEPT !.pc = "done", !.res = "Ok",
                              !.items = SubSeq(rm.provided, rm.taken + 1,
                                               Len(rm.provided))]
              ELSE [rm EXCEPT !.pc = "row", !.page = page]
    /\ UNCHANGED <<engineVars, rt, ph, tg, eq, ov, lv>>

\* one iteration of `for (index, existing) in migrations`
RemainingRow ==
    /\ rm.pc = "row"
    /\ LET index == Head(rm.page)
           existing == rm.rows[index]
       IN  rm' = IF rm.taken >= Len(rm.provided)
                    \/ existing # rm.provided[rm.taken + 1].name
                 THEN [rm EXCEPT !.pc = "done", !.res = "InconsistentHistory",
                                 !.highest_index = index]
                 ELSE [rm EXCEPT !.highest_index = index, !.taken = rm.taken + 1,
                                 !.page = Tail(rm.page),
                                 !.pc = IF Tail(rm.page) = <<>> THEN "page" ELSE "row"]
    /\ UNCHANGED <<engineVars, rt, ph, tg, eq, ov, lv>>

\* ------------------------------------------------------ retry_automatically
STARTING_WAIT_TIME == 100
MAX_WAIT_TIME == 3200
MAX_ATTEMPTS == 10

\* what one execution of the statement can give: success, a database error
\* with SQLSTATE 55P03, a database error with another SQLSTATE, or an error
\* that is not a database error (connection)
Outcomes == {"Ok", "55P03", "db_other", "connection"}

\* Error::as_db_error
as_db_error(error) == error \in {"55P03", "db_other"}

\* an error_retryable that accepts every database error
error_retryable_any(db_error) == TRUE

\* error_retryable: SqlState::LOCK_NOT_AVAILABLE
error_retryable(db_error) == db_error = "55P03"

RECURSIVE Pow(_, _)
Pow(b, e) == IF e = 0 THEN 1 ELSE b * Pow(b, e - 1)

\* a wait time that doubles without a maximum
wait_time_uncapped(attempts) == STARTING_WAIT_TIME * Pow(2, attempts - 1)

\* the wait time after the given number of failed attempts: it starts at
\* 100ms and doubles up to 3.2s
wait_time(attempts) ==
    Min(MAX_WAIT_TIME, STARTING_WAIT_TIME * Pow(2, attempts - 1))

\* one turn of the loop: f().await, then return or go to sleep; the jitter
\* is drawn from 0..wait_time/2, of which the ends are modelled
RetryAttempt ==
    /\ rt.on = "Postgres"
    /\ rt.pc = "call"
    /\ \E result \in Outcomes :
        LET tried == [rt EXCEPT !.outcomes = Append(rt.outcomes, result)]
            attempts == rt.attempts + 1
        IN  IF result = "Ok"
            THEN rt' = [tried EXCEPT !.pc = "returned", !.res = "Ok"]
            ELSE IF as_db_error(result) /\ ~error_retryable(result)
            THEN rt' = [tried EXCEPT !.pc = "returned", !.res = result]
            ELSE IF attempts >= MAX_ATTEMPTS
            THEN rt' = [tried EXCEPT !.pc = "returned", !.res = result,
                                     !.attempts = attempts]
            ELSE \E jitter \in {0, (wait_time(attempts) \div 2) - 1} :
                    rt' = [tried EXCEPT !.pc = "sleep", !.attempts = attempts,
                                        !.wait = wait_time(attempts) + jitter]
    /\ UNCHANGED <<engineVars, rm, ph, tg, eq, ov, lv>>

\* a statement run on a Transaction: executed once, its result returned
TransactionRun ==
    /\ rt.on = "Transaction"
    /\ rt.pc = "call"
    /\ \E result \in Outcomes :
        rt' = [rt EXCEPT !.outcomes = Append(rt.outcomes, result),
                         !.pc = "returned", !.res = result]
    /\ UNCHANGED <<engineVars, rm, ph, tg, eq, ov, lv>>

\* tokio::time::sleep is over
RetrySleep ==
    /\ rt.pc = "sleep"
    /\ rt' = [rt EXCEPT !.pc = "call", !.wait = 0, !.slept = @ + rt.wait]
    /\ UNCHANGED <<engineVars, rm, ph, tg, eq, ov, lv>>

\* ----------------------------------------------------------- specification
\* every step of instance i but the start of a call
Engine(i) ==
    \/ Status(i) \/ EndSession(i) \/ Crash(i) \/ Rerun(i)
    \/ M_Entry(i) \/ M_DropExisting(i) \/ M_SaveApplying(i) \/ M_Helper(i)
    \/ M_Begin(i) \/ M_Views(i) \/ M_SaveInProgress(i)
    \/ A_Entry(i) \/ A_SaveFirst(i) \/ A_Range(i) \/ A_DropSchema(i)
    \/ A_Loop(i) \/ A_SaveStep(i) \/ A_DropFunc(i) \/ A_SaveIdle(i)
    \/ C_Entry(i) \/ C_SaveFirst(i) \/ C_DropPrev(i) \/ C_Loop(i)
    \/ C_SaveStep(i) \/ C_DropFunc(i) \/ C_Final(i)

\* one engine instance, every call
Solo == CHOOSE i \in Inst : \A j \in Inst : i <= j

Next == Call(Solo, Ops) \/ Engine(Solo)

Spec == Init /\ [][Next]_vars

\* A command that is run until it ends.  After any history of calls the user
\* runs abort (range All) or complete on a state the command accepts, and runs
\* the same command again each time the process dies in the middle of it, at
\* most MaxInterruptions times; no abort and no complete of an action fails.
MaxInterruptions == 2

LiveCommands == {"abort", "complete"}

LiveOp(cmd) == [kind |-> cmd, plan |-> <<>>, range |-> Range_All]

StartsFrom(cmd) ==
    IF cmd = "abort" THEN {"Applying", "InProgress", "Aborting"}
    ELSE {"InProgress", "Completing"}

\* Lock::lock acquired, State::load done, the closure of op o about to start
Started(o) ==
    [FreshProc EXCEPT !.ipc = "running", !.op = o,
                      !.loaded = dbState, !.mem = dbState, !.rows = ledger,
                      !.pc = EntryOf(o.kind),
                      !.provided = o.plan, !.range = o.range]

LiveStart ==
    /\ lv.cmd = "none"
    /\ proc[Solo].ipc = "ready"
    /\ acquire_lock(Solo)
    /\ \E cmd \in LiveCommands :
        /\ dbState.tag \in StartsFrom(cmd)
        /\ lv' = [cmd |-> cmd, interruptions |-> 0]
        /\ proc' = [proc EXCEPT ![Solo] = Started(LiveOp(cmd))]
    /\ lockHolder' = Solo
    /\ lastRet' = NoRet
    /\ dirty' = FALSE
    /\ UNCHANGED <<dbVars, lastWriter, begun, rm, rt, ph, tg, eq, ov>>

\* a step of the command in which the process does not die and no abort or
\* complete of an action returns an error
LiveStep ==
    /\ lv.cmd # "none"
    /\ Engine(Solo)
    /\ lastRet'.res \notin {"crash", "AbortFailed", "CompleteFailed"}

\* the process dies and the same command is run again: the session's lock
\* goes away with the process and the new process acquires it
LiveInterrupt ==
    /\ lv.cmd # "none"
    /\ proc[Solo].ipc = "running"
    /\ lv.interruptions < MaxInterruptions
    /\ lv' = [lv EXCEPT !.interruptions = @ + 1]
    /\ proc' = [proc EXCEPT ![Solo] = Started(LiveOp(lv.cmd))]
    /\ dirty' = FALSE
    /\ UNCHANGED <<lockHolder, dbVars, lastWriter, lastRet, begun,
                   rm, rt, ph, tg, eq, ov>>

NextLive ==
    \/ (lv.cmd = "none" /\ Next)
    \/ LiveStart
    \/ LiveStep
    \/ LiveInterrupt

\* the process executes its next statement unless it dies
SpecLive == Init /\ [][NextLive]_vars /\ WF_vars(LiveStep)

\* two engine instances on the same database
NextLock == \E i \in Inst : Call(i, LockOps) \/ Engine(i)

SpecLock == Init /\ [][NextLock]_vars

\* remaining_migrations alone, on every ledger of up to MaxRows rows and every
\* provided list of up to MaxProvided migrations
Seqs(S, n) == UNION {[1..c -> S] : c \in 0..n}

InitLedger ==
    /\ lockHolder = 0
    /\ dbState = State_Idle
    /\ ledger = <<>>
    /\ schemas = {}
    /\ helper = 0
    /\ artefacts = {}
    /\ completed = {}
    /\ proc = [i \in Inst |-> FreshProc]
    /\ dirty = FALSE
    /\ lastWriter = "none"
    /\ lastRet = NoRet
    /\ begun = {}
    /\ rt = RT_Off
    /\ ph = PH_Off
    /\ tg = TG_Off
    /\ eq = EQ_Off
    /\ ov = OV_Off
    /\ lv = LV_Off
    /\ \E rows \in Seqs(Names, MaxRows), names \in Seqs(Names, MaxProvided) :
          rm = RM_Start(rows, [x \in DOMAIN names |-> Migration(names[x], <<>>)])

NextLedger == RemainingPage \/ RemainingRow

SpecLedger == InitLedger /\ [][NextLedger]_vars

\* the two implementations of Connection a statement can be run on
Connections == {"Postgres", "Transaction"}

\* one statement run on either connection, on every sequence of outcomes of
\* the statement
InitRetry ==
    /\ lockHolder = 0
    /\ dbState = State_Idle
    /\ ledger = <<>>
    /\ schemas = {}
    /\ helper = 0
    /\ artefacts = {}
    /\ completed = {}
    /\ proc = [i \in Inst |-> FreshProc]
    /\ dirty = FALSE
    /\ lastWriter = "none"
    /\ lastRet = NoRet
    /\ begun = {}
    /\ rm = RM_Off
    /\ \E on \in Connections : rt = [RT_Start EXCEPT !.on = on]
    /\ ph = PH_Off
    /\ tg = TG_Off
    /\ eq = EQ_Off
    /\ ov = OV_Off
    /\ lv = LV_Off

NextRetry == RetryAttempt \/ RetrySleep \/ TransactionRun

SpecRetry == InitRetry /\ [][NextRetry]_vars

\* ---------------------------------------------------------------- actions
\* The methods of the actions on schema public.  A method is a sequence of
\* statements, each committed on its own: it returns at the first statement
\* that fails and keeps what the statements before it did.
Done(db) == [ok |-> TRUE, db |-> db]

Failed(db) == [ok |-> FALSE, db |-> db]

\* MigrationContext::prefix as text: format!("__reshape_{:0>4}_{:0>4}",
\* migration_index, action_index).  A number is written in decimal and padded
\* with zeros on the left to four characters, longer numbers are kept whole
RECURSIVE Decimal(_)
Decimal(n) == IF n < 10 THEN <<n>> ELSE Append(Decimal(n \div 10), n % 10)

PadZeros(d, width) ==
    IF Len(d) >= width THEN d ELSE [x \in 1..(width - Len(d)) |-> 0] \o d

prefix_text(migration_index, action_index) ==
    <<"__reshape_">> \o PadZeros(Decimal(migration_index), 4)
        \o <<"_">> \o PadZeros(Decimal(action_index), 4)

\* MigrationContext::prefix and the names the actions derive from it
\* (a name is the prefix number, 0 for none, and three strings)
prefix(ctx) == ctx

trigger_name(a, ctx) == <<prefix(ctx), a.table, a.name, "add_column">>

not_null_constraint_name(a, ctx) ==
    <<prefix(ctx), a.table, a.name, "add_column_not_null">>

temp_constraint_name(ctx) == <<prefix(ctx), "", "", "temp_fkey">>

final_constraint_name(a) == <<0, a.table, a.name, "fkey">>

\* Schema::change_table: the entry whose current_name is the given name, a new
\* entry pushed when there is none, then f applied to it
TableChanges_new(name) ==
    [current_name |-> name, real_name |-> name, column_changes |-> <<>>,
     removed |-> FALSE]

table_change_index(schema, current_name) ==
    IF \E x \in DOMAIN schema : schema[x].current_name = current_name
    THEN CHOOSE x \in DOMAIN schema :
            /\ schema[x].current_name = current_name
            /\ \A y \in 1..(x - 1) : schema[y].current_name # current_name
    ELSE 0

set_name(schema, current_name, name) ==
    LET pushed == IF table_change_index(schema, current_name) = 0
                  THEN Append(schema, TableChanges_new(current_name))
                  ELSE schema
    IN  [pushed EXCEPT ![table_change_index(pushed, current_name)].current_name = name]

set_removed(schema, current_name) ==
    LET pushed == IF table_change_index(schema, current_name) = 0
                  THEN Append(schema, TableChanges_new(current_name))
                  ELSE schema
    IN  [pushed EXCEPT ![table_change_index(pushed, current_name)].removed = TRUE]

touch(schema, current_name) ==
    IF table_change_index(schema, current_name) = 0
    THEN Append(schema, TableChanges_new(current_name))
    ELSE schema

ColumnChanges_new(name) ==
    [current_name |-> name, backing_columns |-> <<name>>, removed |-> FALSE]

\* position of the first column changes with the current name, 0 for none
column_change_index(column_changes, current_name) ==
    IF \E x \in DOMAIN column_changes :
            column_changes[x].current_name = current_name
    THEN CHOOSE x \in DOMAIN column_changes :
            /\ column_changes[x].current_name = current_name
            /\ \A y \in 1..(x - 1) : column_changes[y].current_name # current_name
    ELSE 0

\* TableChanges::change_column without a change: the entry is pushed when
\* there is none
touch_column(column_changes, current_name) ==
    IF column_change_index(column_changes, current_name) = 0
    THEN Append(column_changes, ColumnChanges_new(current_name))
    ELSE column_changes

\* Schema::get_tables: the tables of schema public whose changes, looked up
\* by real name, are not marked removed; each becomes a view of the new schema
get_tables(schema, db) ==
    {real_name \in db.tables :
        \A x \in DOMAIN schema :
            (/\ schema[x].real_name = real_name
             /\ \A y \in 1..(x - 1) : schema[y].real_name # real_name)
                => ~schema[x].removed}

\* Schema::get_table: the real name behind a current name
get_table(schema, table_name) ==
    IF table_change_index(schema, table_name) = 0 THEN table_name
    ELSE schema[table_change_index(schema, table_name)].real_name

\* ALTER TABLE ... DROP COLUMN: the column goes and with it its NOT NULL flag
\* and the constraints on it
DropColumn(db, table, column) ==
    [db EXCEPT !.columns = @ \ {<<table, column>>},
               !.not_null = @ \ {<<table, column>>},
               !.constraints = {c \in @ : ~(c.table = table /\ c.on = column)}]

\* DROP FUNCTION IF EXISTS ... CASCADE: the function and the triggers calling it
DropFunction(db, name) ==
    [db EXCEPT !.functions = @ \ {name},
               !.triggers = {g \in @ : g[2] # name}]

\* ALTER TABLE ... RENAME TO
RenameTable(db, table, new_name) ==
    LET r(t) == IF t = table THEN new_name ELSE t
    IN  [tables |-> {r(t) : t \in db.tables},
         columns |-> {<<r(c[1]), c[2]>> : c \in db.columns},
         not_null |-> {<<r(c[1]), c[2]>> : c \in db.not_null},
         constraints |-> {[c EXCEPT !.table = r(@), !.ref = r(@)] : c \in db.constraints},
         indexes |-> {<<r(x[1]), x[2]>> : x \in db.indexes},
         enums |-> db.enums,
         functions |-> db.functions,
         triggers |-> {<<r(g[1]), g[2]>> : g \in db.triggers},
         rows |-> [t \in TableNames |->
                     IF t = new_name THEN db.rows[table]
                     ELSE IF t = table THEN 0 ELSE db.rows[t]]]

\* DROP TABLE: the table with its rows and everything attached to it
DropTable(db, table) ==
    [db EXCEPT !.tables = @ \ {table},
               !.columns = {c \in @ : c[1] # table},
               !.not_null = {c \in @ : c[1] # table},
               !.constraints = {c \in @ : c.table # table},
               !.indexes = {x \in @ : x[1] # table},
               !.triggers = {g \in @ : g[1] # table},
               !.rows = [@ EXCEPT ![table] = 0]]

\* add_column, with no transformation or a simple one
add_column_begin(a, ctx, db, schema) ==
    LET table == get_table(schema, a.table)
        s1 == IF table \in db.tables
              THEN Done([db EXCEPT !.columns = @ \cup {<<table, a.name>>}])
              ELSE Failed(db)
        s2 == IF s1.ok /\ a.up
              THEN Done([s1.db EXCEPT
                           !.functions = @ \cup {trigger_name(a, ctx)},
                           !.triggers = @ \cup {<<table, trigger_name(a, ctx)>>}])
              ELSE s1
    IN  IF s2.ok /\ ~a.nullable
        THEN Done([s2.db EXCEPT !.constraints = @ \cup
                      {[table |-> table, name |-> not_null_constraint_name(a, ctx),
                        on |-> a.name, ref |-> ""]}])
        ELSE s2

add_column_complete(a, ctx, db) ==
    LET s1 == Done(DropFunction(db, trigger_name(a, ctx)))
    IN  IF a.nullable THEN s1
        ELSE IF a.table \notin s1.db.tables THEN Failed(s1.db)
        ELSE Done([s1.db EXCEPT
                     !.not_null = IF <<a.table, a.name>> \in s1.db.columns
                                  THEN @ \cup {<<a.table, a.name>>} ELSE @,
                     !.constraints = {c \in @ :
                         ~(c.table = a.table
                           /\ c.name = not_null_constraint_name(a, ctx))}])

add_column_update_schema(a, schema) ==
    LET s == touch(schema, a.table)
        ti == table_change_index(s, a.table)
    IN  [s EXCEPT ![ti].column_changes = touch_column(s[ti].column_changes, a.name)]

add_column_abort(a, ctx, db) ==
    IF a.table \in db.tables
    THEN Done(DropFunction(DropColumn(db, a.table, a.name), trigger_name(a, ctx)))
    ELSE Failed(db)

\* the columns of a table: the one every table has, and the added ones
TableColumns(db, real_name) ==
    {"id"} \cup {c[2] : c \in {x \in db.columns : x[1] = real_name}}

\* add_index: the column list of the statement is the table's columns
\* filtered by the declared ones (an empty list is a syntax error), and the
\* statement names the table by the name the action carries
add_index_begin(a, ctx, db, schema) ==
    LET column_real_names ==
            {c \in TableColumns(db, get_table(schema, a.table)) :
                c \in a.columns}
    IN  IF column_real_names = {} \/ a.table \notin db.tables THEN Failed(db)
        ELSE IF \E x \in db.indexes : x[2] = a.name THEN Done(db)
        ELSE Done([db EXCEPT !.indexes = @ \cup {<<a.table, a.name>>}])

add_index_abort(a, ctx, db) ==
    Done([db EXCEPT !.indexes = {x \in @ : x[2] # a.name}])

\* add_foreign_key, on a column that has to be there: ADD CONSTRAINT has no
\* guard against a constraint of the same name, RENAME CONSTRAINT none against
\* a missing or a taken name
add_foreign_key_run(a, ctx, db, schema) ==
    LET table == get_table(schema, a.table)
        referenced_table == get_table(schema, a.to)
    IN  IF \/ table \notin db.tables
           \/ referenced_table \notin db.tables
           \/ <<table, a.name>> \notin db.columns
           \/ \E c \in db.constraints :
                 c.table = table /\ c.name = temp_constraint_name(ctx)
        THEN Failed(db)
        ELSE Done([db EXCEPT !.constraints = @ \cup
                      {[table |-> table, name |-> temp_constraint_name(ctx),
                        on |-> a.name, ref |-> referenced_table]}])

add_foreign_key_complete(a, ctx, db) ==
    IF \/ a.table \notin db.tables
       \/ ~\E c \in db.constraints :
             c.table = a.table /\ c.name = temp_constraint_name(ctx)
       \/ \E c \in db.constraints :
             c.table = a.table /\ c.name = final_constraint_name(a)
    THEN Failed(db)
    ELSE LET renamed(c) ==
                 IF c.table = a.table /\ c.name = temp_constraint_name(ctx)
                 THEN [c EXCEPT !.name = final_constraint_name(a)] ELSE c
         IN  Done([db EXCEPT !.constraints = {renamed(c) : c \in @}])

add_foreign_key_abort(a, ctx, db) ==
    IF a.table \notin db.tables THEN Failed(db)
    ELSE Done([db EXCEPT !.constraints = {c \in @ :
                  ~(c.table = a.table /\ c.name = temp_constraint_name(ctx))}])

\* create_enum: begin looks the type up first, CREATE TYPE having no
\* IF NOT EXISTS
create_enum_begin(a, ctx, db, schema) ==
    IF a.name \in db.enums THEN Done(db)
    ELSE Done([db EXCEPT !.enums = @ \cup {a.name}])

create_enum_abort(a, ctx, db) == Done([db EXCEPT !.enums = @ \ {a.name}])

\* remove_enum, remove_index and remove_table: run and abort do nothing
remove_enum_run(a, ctx, db, schema) == Done(db)

remove_enum_abort(a, ctx, db) == Done(db)

remove_enum_complete(a, ctx, db) == Done([db EXCEPT !.enums = @ \ {a.name}])

\* remove_foreign_key: begin only checks that the key is there
remove_foreign_key_begin_unchecked(a, ctx, db, schema) == Done(db)

remove_foreign_key_begin(a, ctx, db, schema) ==
    IF \E c \in db.constraints :
          c.table = get_table(schema, a.table) /\ c.name = a.foreign_key /\ c.ref # ""
    THEN Done(db) ELSE Failed(db)

remove_foreign_key_complete(a, ctx, db) ==
    IF a.table \notin db.tables THEN Failed(db)
    ELSE Done([db EXCEPT !.constraints =
                  {c \in @ : ~(c.table = a.table /\ c.name = a.foreign_key)}])

remove_index_run(a, ctx, db, schema) == Done(db)

remove_index_abort(a, ctx, db) == Done(db)

remove_index_complete(a, ctx, db) ==
    Done([db EXCEPT !.indexes = {x \in @ : x[2] # a.name}])

remove_table_run(a, ctx, db, schema) == Done(db)

remove_table_abort(a, ctx, db) == Done(db)

\* remove_table: DROP TABLE without CASCADE is refused while a foreign key of
\* another table references the table
remove_table_complete(a, ctx, db) ==
    IF a.table \notin db.tables THEN Done(db)
    ELSE IF \E c \in db.constraints : c.ref = a.table /\ c.table # a.table
    THEN Failed(db)
    ELSE Done(DropTable(db, a.table))

remove_table_update_schema_unmarked(a, schema) == touch(schema, a.table)

remove_table_update_schema(a, schema) == set_removed(schema, a.table)

\* rename_table: run and abort touch nothing, update_schema renames in the
\* overlay, complete renames the table
rename_table_run_renaming(a, ctx, db, schema) ==
    IF a.table \in db.tables /\ a.to \notin db.tables
    THEN Done(RenameTable(db, a.table, a.to)) ELSE Done(db)

rename_table_run(a, ctx, db, schema) == Done(db)

rename_table_complete(a, ctx, db) ==
    IF a.table \notin db.tables THEN Done(db)
    ELSE IF a.to \in db.tables THEN Failed(db)
    ELSE Done(RenameTable(db, a.table, a.to))

rename_table_update_schema(a, schema) == set_name(schema, a.table, a.to)

rename_table_abort(a, ctx, db) == Done(db)

\* Action::begin, complete, update_schema and abort by action type
begin(a, ctx, db, schema) ==
    CASE a.type = "add_column" -> add_column_begin(a, ctx, db, schema)
      [] a.type = "add_index" -> add_index_begin(a, ctx, db, schema)
      [] a.type = "add_foreign_key" -> add_foreign_key_run(a, ctx, db, schema)
      [] a.type = "create_enum" -> create_enum_begin(a, ctx, db, schema)
      [] a.type = "remove_foreign_key" ->
            remove_foreign_key_begin(a, ctx, db, schema)
      [] a.type = "remove_enum" -> remove_enum_run(a, ctx, db, schema)
      [] a.type = "remove_index" -> remove_index_run(a, ctx, db, schema)
      [] a.type = "remove_table" -> remove_table_run(a, ctx, db, schema)
      [] a.type = "rename_table" -> rename_table_run(a, ctx, db, schema)
      [] OTHER -> Done(db)

complete(a, ctx, db) ==
    CASE a.type = "add_column" -> add_column_complete(a, ctx, db)
      [] a.type = "add_foreign_key" -> add_foreign_key_complete(a, ctx, db)
      [] a.type = "remove_enum" -> remove_enum_complete(a, ctx, db)
      [] a.type = "remove_foreign_key" ->
            remove_foreign_key_complete(a, ctx, db)
      [] a.type = "remove_index" -> remove_index_complete(a, ctx, db)
      [] a.type = "remove_table" -> remove_table_complete(a, ctx, db)
      [] a.type = "rename_table" -> rename_table_complete(a, ctx, db)
      [] OTHER -> Done(db)

update_schema(a, schema) ==
    CASE a.type = "add_column" -> add_column_update_schema(a, schema)
      [] a.type = "remove_table" -> remove_table_update_schema(a, schema)
      [] a.type = "rename_table" -> rename_table_update_schema(a, schema)
      [] OTHER -> schema

abort(a, ctx, db) ==
    CASE a.type = "add_column" -> add_column_abort(a, ctx, db)
      [] a.type = "add_index" -> add_index_abort(a, ctx, db)
      [] a.type = "add_foreign_key" -> add_foreign_key_abort(a, ctx, db)
      [] a.type = "create_enum" -> create_enum_abort(a, ctx, db)
      [] a.type = "remove_enum" -> remove_enum_abort(a, ctx, db)
      [] a.type = "remove_index" -> remove_index_abort(a, ctx, db)
      [] a.type = "remove_table" -> remove_table_abort(a, ctx, db)
      [] a.type = "rename_table" -> rename_table_abort(a, ctx, db)
      [] OTHER -> Done(db)

\* the actions alone: one action, or two actions of one migration, on a
\* database that holds table A and any of table B, column c, index ix, enum e
\* and the foreign key of c; the methods are invoked in any order, up to
\* MaxCalls invocations and row writes
Act(type, table, name, to) ==
    [type |-> type, table |-> table, name |-> name, to |-> to,
     nullable |-> TRUE, up |-> FALSE, foreign_key |-> <<0, "", "", "">>,
     columns |-> {}]

Subjects ==
    {<<[Act("add_column", "A", "c", "") EXCEPT !.nullable = n, !.up = u]>> :
        n \in BOOLEAN, u \in BOOLEAN}
    \cup {<<[Act("add_index", "A", "ix", "") EXCEPT !.columns = cs]>> :
            cs \in {{"id"}, {"id", "nope"}, {"nope"}}}
    \cup {<<Act("add_foreign_key", "A", "c", "B")>>,
          <<Act("create_enum", "", "e", "")>>,
          <<Act("remove_enum", "", "e", "")>>,
          <<Act("remove_index", "A", "ix", "")>>,
          <<[Act("remove_foreign_key", "A", "", "") EXCEPT !.foreign_key =
                final_constraint_name(Act("add_foreign_key", "A", "c", "B"))]>>,
          <<Act("remove_table", "A", "", "")>>,
          <<Act("rename_table", "A", "", "B"), Act("rename_table", "B", "", "A")>>,
          <<Act("rename_table", "A", "", "B"), Act("add_column", "B", "c", "")>>}

PreStates ==
    {[NoObjects EXCEPT
        !.tables = {"A"} \cup (IF b THEN {"B"} ELSE {}),
        !.columns = IF c THEN {<<"A", "c">>} ELSE {},
        !.indexes = IF x THEN {<<"A", "ix">>} ELSE {},
        !.enums = IF e THEN {"e"} ELSE {},
        !.constraints = IF f /\ b /\ c
            THEN {[table |-> "A",
                   name |-> final_constraint_name(
                                Act("add_foreign_key", "A", "c", "B")),
                   on |-> "c", ref |-> "B"]}
            ELSE {}] :
     b \in BOOLEAN, c \in BOOLEAN, x \in BOOLEAN, e \in BOOLEAN,
     f \in BOOLEAN}

Invoked(method, k, r) ==
    Append(ph.hist, [m |-> method, k |-> k, ok |-> r.ok, db |-> r.db])

\* begin of an action followed by update_schema whatever begin returned
ActionBegin_unconditional ==
    /\ Len(ph.hist) < MaxCalls
    /\ \E k \in DOMAIN ph.sub :
        LET r == begin(ph.sub[k], k, ph.db, ph.schema)
        IN  ph' = [ph EXCEPT !.db = r.db,
                             !.schema = update_schema(ph.sub[k], @),
                             !.hist = Invoked("begin", k, r)]
    /\ UNCHANGED <<engineVars, rm, rt, tg, eq, ov, lv>>

\* begin of an action, and update_schema when it succeeded
ActionBegin ==
    /\ Len(ph.hist) < MaxCalls
    /\ \E k \in DOMAIN ph.sub :
        LET r == begin(ph.sub[k], k, ph.db, ph.schema)
        IN  ph' = [ph EXCEPT !.db = r.db,
                             !.schema = IF r.ok THEN update_schema(ph.sub[k], @)
                                        ELSE @,
                             !.hist = Invoked("begin", k, r)]
    /\ UNCHANGED <<engineVars, rm, rt, tg, eq, ov, lv>>

ActionComplete ==
    /\ Len(ph.hist) < MaxCalls
    /\ \E k \in DOMAIN ph.sub :
        LET r == complete(ph.sub[k], k, ph.db)
        IN  ph' = [ph EXCEPT !.db = r.db, !.hist = Invoked("complete", k, r)]
    /\ UNCHANGED <<engineVars, rm, rt, tg, eq, ov, lv>>

ActionAbort ==
    /\ Len(ph.hist) < MaxCalls
    /\ \E k \in DOMAIN ph.sub :
        LET r == abort(ph.sub[k], k, ph.db)
        IN  ph' = [ph EXCEPT !.db = r.db, !.hist = Invoked("abort", k, r)]
    /\ UNCHANGED <<engineVars, rm, rt, tg, eq, ov, lv>>

\* a client inserts a row into a table
WriteRow ==
    /\ Len(ph.hist) < MaxCalls
    /\ \E t \in ph.db.tables :
        LET r == Done([ph.db EXCEPT !.rows[t] = @ + 1])
        IN  ph' = [ph EXCEPT !.db = r.db, !.hist = Invoked("write", 0, r)]
    /\ UNCHANGED <<engineVars, rm, rt, tg, eq, ov, lv>>

InitActions ==
    /\ lockHolder = 0
    /\ dbState = State_Idle
    /\ ledger = <<>>
    /\ schemas = {}
    /\ helper = 0
    /\ artefacts = {}
    /\ completed = {}
    /\ proc = [i \in Inst |-> FreshProc]
    /\ dirty = FALSE
    /\ lastWriter = "none"
    /\ lastRet = NoRet
    /\ begun = {}
    /\ rm = RM_Off
    /\ rt = RT_Off
    /\ tg = TG_Off
    /\ eq = EQ_Off
    /\ ov = OV_Off
    /\ lv = LV_Off
    /\ \E sub \in Subjects, db \in PreStates :
          ph = [sub |-> sub, pre |-> db, db |-> db, schema |-> <<>>,
                hist |-> <<>>]

NextActions == ActionBegin \/ ActionComplete \/ ActionAbort \/ WriteRow

SpecActions == InitActions /\ [][NextActions]_vars

\* ------------------------------------------------------------ up trigger
\* The trigger add_column installs for a simple up transformation, on a table
\* with one existing column `name` and the added column; the value 0 of the
\* added column is NULL.  Writers are sessions with their search_path and
\* their setting reshape.is_new_schema.
schema_name_for_migration(migration_name) == <<"migration_", migration_name>>

SearchPaths ==
    {<<"public", 0>>} \cup {schema_name_for_migration(m) : m \in Names}

Settings == {"NULL", "YES", "NO"}

\* reshape.is_new_schema() as create_new_schema_func defines it
is_new_schema(target, search_path, setting) ==
    \/ search_path = schema_name_for_migration(target)
    \/ (setting # "NULL" /\ setting = "YES")

\* the up expression of the action, evaluated on the row's existing column
up(name) == name + 1

\* the body of the trigger function, BEFORE UPDATE OR INSERT FOR EACH ROW
up_trigger_always(target, search_path, setting, new) ==
    [new EXCEPT !.column = up(new.name)]

up_trigger(target, search_path, setting, new) ==
    IF ~is_new_schema(target, search_path, setting)
    THEN [new EXCEPT !.column = up(new.name)]
    ELSE new

Written(kind, search_path, setting, id, column) ==
    [kind |-> kind, search_path |-> search_path, setting |-> setting,
     id |-> id, column |-> column]

\* INSERT of a row: the added column holds what the writer supplied, NULL
\* when the writer named no value for it
TriggerInsert ==
    /\ tg.on
    /\ Len(tg.rows) < MaxTriggerRows
    /\ \E search_path \in SearchPaths, setting \in Settings,
          name \in 1..MaxValue, column \in 0..(MaxValue + 1) :
        LET new == [name |-> name, column |-> column]
        IN  tg' = [tg EXCEPT
                     !.rows = Append(@, up_trigger(tg.target, search_path,
                                                   setting, new)),
                     !.last = Written("insert", search_path, setting,
                                      Len(tg.rows) + 1, column)]
    /\ UNCHANGED <<engineVars, rm, rt, ph, eq, ov, lv>>

\* UPDATE of a row: the writer sets the existing column, and the added column
\* holds what the writer set or the value it had
TriggerUpdate ==
    /\ tg.on
    /\ \E id \in DOMAIN tg.rows, search_path \in SearchPaths,
          setting \in Settings, name \in 1..MaxValue,
          column \in 0..(MaxValue + 1) :
        LET new == [name |-> name, column |-> column]
        IN  tg' = [tg EXCEPT
                     !.rows[id] = up_trigger(tg.target, search_path, setting,
                                             new),
                     !.last = Written("update", search_path, setting, id,
                                      column)]
    /\ UNCHANGED <<engineVars, rm, rt, ph, eq, ov, lv>>

InitTrigger ==
    /\ lockHolder = 0
    /\ dbState = State_Idle
    /\ ledger = <<>>
    /\ schemas = {}
    /\ helper = 0
    /\ artefacts = {}
    /\ completed = {}
    /\ proc = [i \in Inst |-> FreshProc]
    /\ dirty = FALSE
    /\ lastWriter = "none"
    /\ lastRet = NoRet
    /\ begun = {}
    /\ rm = RM_Off
    /\ rt = RT_Off
    /\ ph = PH_Off
    /\ \E target \in Names : tg = TG_Start(target)
    /\ eq = EQ_Off
    /\ ov = OV_Off
    /\ lv = LV_Off

NextTrigger == TriggerInsert \/ TriggerUpdate

SpecTrigger == InitTrigger /\ [][NextTrigger]_vars

\* ------------------------------------------------- the overlay and get_table
MaxChanges == 3

ColumnNames == {"c", "x"}

\* change_table(table, |t| t.change_column(column, |c| c.set_name(name)))
column_set_name(schema, table, column, name) ==
    LET s == touch(schema, table)
        ti == table_change_index(s, table)
        cc == touch_column(s[ti].column_changes, column)
        ci == column_change_index(cc, column)
    IN  [s EXCEPT ![ti].column_changes = [cc EXCEPT ![ci].current_name = name]]

\* change_table(table, |t| t.change_column(column, |c| c.set_column(column_name)))
set_column(schema, table, column, column_name) ==
    LET s == touch(schema, table)
        ti == table_change_index(s, table)
        cc == touch_column(s[ti].column_changes, column)
        ci == column_change_index(cc, column)
    IN  [s EXCEPT ![ti].column_changes =
            [cc EXCEPT ![ci].backing_columns =
                            Append(cc[ci].backing_columns, column_name)]]

\* change_table(table, |t| t.change_column(column, |c| c.set_removed()))
column_set_removed(schema, table, column) ==
    LET s == touch(schema, table)
        ti == table_change_index(s, table)
        cc == touch_column(s[ti].column_changes, column)
        ci == column_change_index(cc, column)
    IN  [s EXCEPT ![ti].column_changes = [cc EXCEPT ![ci].removed = TRUE]]

\* ColumnChanges::real_name: the last backing column
real_name(column_changes) ==
    column_changes.backing_columns[Len(column_changes.backing_columns)]

\* the columns of a table of schema public, by ordinal position; a table
\* that does not exist has none
real_columns(real_table_name) ==
    IF real_table_name = "A" THEN <<"id", "c", "x">>
    ELSE IF real_table_name = "B" THEN <<"id", "c">>
    ELSE <<>>

\* position of the first table changes with the real name, 0 for none
real_name_index(schema, real_table_name) ==
    IF \E x \in DOMAIN schema : schema[x].real_name = real_table_name
    THEN CHOOSE x \in DOMAIN schema :
            /\ schema[x].real_name = real_table_name
            /\ \A y \in 1..(x - 1) : schema[y].real_name # real_table_name
    ELSE 0

\* a get_table_by_real_name that is handed the changes found by current name
get_table_by_entry(schema, ti, real_table_name) ==
    LET changes == IF ti = 0 THEN <<>> ELSE schema[ti].column_changes
        ignore_columns ==
            {real_name(changes[x]) : x \in {y \in DOMAIN changes : changes[y].removed}}
            \cup UNION {{changes[x].backing_columns[y] :
                            y \in 1..(Len(changes[x].backing_columns) - 1)} :
                        x \in DOMAIN changes}
        aliased(column) ==
            {x \in DOMAIN changes :
                ~changes[x].removed /\ real_name(changes[x]) = column}
        alias(column) ==
            IF aliased(column) = {} THEN column
            ELSE changes[CHOOSE x \in aliased(column) :
                            \A y \in aliased(column) : y <= x].current_name
        kept(column) == column \notin ignore_columns
        columns == SelectSeq(real_columns(real_table_name), kept)
    IN  [name |-> IF ti = 0 THEN real_table_name ELSE schema[ti].current_name,
         real_name |-> real_table_name,
         columns |-> [x \in DOMAIN columns |->
                        [name |-> alias(columns[x]), real_name |-> columns[x]]]]

\* Schema::get_table_by_real_name: the changes are those of the first entry
\* with the real name; removed and shadowed columns are ignored, the others
\* get the current name of the last entry they back (HashMap::insert)
get_table_by_real_name(schema, real_table_name) ==
    get_table_by_entry(schema, real_name_index(schema, real_table_name),
                       real_table_name)

\* a change of the overlay through change_table and change_column
ChangeTable ==
    /\ ov.pc = "change"
    /\ ov.n < MaxChanges
    /\ \E table \in TableNames :
        \/ \E name \in TableNames :
            ov' = [ov EXCEPT !.n = @ + 1, !.schema = set_name(@, table, name)]
        \/ ov' = [ov EXCEPT !.n = @ + 1, !.schema = set_removed(@, table)]
    /\ UNCHANGED <<engineVars, rm, rt, ph, tg, eq, lv>>

ChangeColumn ==
    /\ ov.pc = "change"
    /\ ov.n < MaxChanges
    /\ \E table \in TableNames, column \in ColumnNames :
        \/ \E name \in ColumnNames :
            ov' = [ov EXCEPT !.n = @ + 1,
                             !.schema = column_set_name(@, table, column, name)]
        \/ \E column_name \in ColumnNames :
            ov' = [ov EXCEPT !.n = @ + 1,
                             !.schema = set_column(@, table, column, column_name)]
        \/ ov' = [ov EXCEPT !.n = @ + 1,
                            !.schema = column_set_removed(@, table, column)]
    /\ UNCHANGED <<engineVars, rm, rt, ph, tg, eq, lv>>

\* Schema::get_table(table_name)
GetTable ==
    /\ ov.pc = "change"
    /\ \E table_name \in TableNames :
        ov' = [ov EXCEPT !.pc = "looked", !.asked = table_name,
                         !.res = get_table_by_real_name(ov.schema,
                                    get_table(ov.schema, table_name))]
    /\ UNCHANGED <<engineVars, rm, rt, ph, tg, eq, lv>>

InitOverlay ==
    /\ lockHolder = 0
    /\ dbState = State_Idle
    /\ ledger = <<>>
    /\ schemas = {}
    /\ helper = 0
    /\ artefacts = {}
    /\ completed = {}
    /\ proc = [i \in Inst |-> FreshProc]
    /\ dirty = FALSE
    /\ lastWriter = "none"
    /\ lastRet = NoRet
    /\ begun = {}
    /\ rm = RM_Off
    /\ rt = RT_Off
    /\ ph = PH_Off
    /\ tg = TG_Off
    /\ eq = EQ_Off
    /\ ov = OV_Start
    /\ lv = LV_Off

NextOverlay == ChangeTable \/ ChangeColumn \/ GetTable

SpecOverlay == InitOverlay /\ [][NextOverlay]_vars

\* ------------------------------------------------- equality of migrations
MaxActions == 2

\* migrations with a name, a description and up to MaxActions actions
EqMigrations ==
    {[name |-> n, description |-> d, actions |-> acts] :
        n \in Names, d \in {"", "d"},
        acts \in Seqs({"add_column", "add_index"}, MaxActions)}

\* a == b
CompareMigrations ==
    /\ eq.pc = "compare"
    /\ eq' = [eq EXCEPT !.pc = "done", !.res = MigrationEq(eq.a, eq.b)]
    /\ UNCHANGED <<engineVars, rm, rt, ph, tg, ov, lv>>

InitEq ==
    /\ lockHolder = 0
    /\ dbState = State_Idle
    /\ ledger = <<>>
    /\ schemas = {}
    /\ helper = 0
    /\ artefacts = {}
    /\ completed = {}
    /\ proc = [i \in Inst |-> FreshProc]
    /\ dirty = FALSE
    /\ lastWriter = "none"
    /\ lastRet = NoRet
    /\ begun = {}
    /\ rm = RM_Off
    /\ rt = RT_Off
    /\ ph = PH_Off
    /\ tg = TG_Off
    /\ ov = OV_Off
    /\ lv = LV_Off
    /\ \E a \in EqMigrations, b \in EqMigrations : eq = EQ_Start(a, b)

NextEq == CompareMigrations

SpecEq == InitEq /\ [][NextEq]_vars

\* -------------------------------------------------------------- properties
NameSet(ms) == {ms[x].name : x \in 1..Len(ms)}

\* a is a prefix of b, migrations compared by name and actions
IsPrefixOf(a, b) == Len(a) <= Len(b) /\ \A x \in 1..Len(a) : a[x] = b[x]

\* the step is the process of instance i dying
IsCrash(i) == proc'[i].ipc = "ready" /\ lastRet'.res = "crash"

\* the step is the process of instance i dying and being started again
IsRerun(i) == proc'[i].ipc = "running" /\ proc'[i].rerun /\ ~proc[i].rerun

\* the step is a step of the operation instance i is running
OpStep(i) ==
    /\ proc[i].ipc = "running"
    /\ proc'[i] # proc[i]
    /\ ~IsCrash(i)
    /\ ~IsRerun(i)

\* the step is the return of the operation instance i is running, with r
Returns(i, r) ==
    /\ OpStep(i)
    /\ proc'[i].ipc = "ready"
    /\ lastRet'.inst = i
    /\ lastRet'.res = r

\* the not-yet-applied migrations of the plan of call p, as migrate has them
\* when it looks at the persisted state
Remaining(p) ==
    LET r == remaining_migrations(p.rows, p.provided)
        pos == Position(r.rest, p.range.name)
    IN  [ok |-> r.ok /\ (p.range.kind = "UpTo" => pos # 0),
         rest |-> IF p.range.kind = "UpTo" THEN SubSeq(r.rest, 1, pos) ELSE r.rest]

\* call p is a migrate at its first line with the persisted state tag and a
\* plan whose not-yet-applied migrations do not have the migrations of the
\* persisted state as a prefix
MigrateWithoutPrefix(p, tag) ==
    /\ p.op.kind = "migrate"
    /\ p.pc = "m_entry"
    /\ p.pending = 0
    /\ p.loaded.tag = tag
    /\ p.mem = p.loaded
    /\ Remaining(p).ok
    /\ ~IsPrefixOf(p.loaded.migrations, Remaining(p).rest)

\* C1: once a locked operation has ended, by returning a value, by returning
\* an error or by panicking, its engine instance no longer holds the advisory
\* lock.
C1_LockReleasedOnEveryExit ==
    \A i \in Inst : proc[i].ipc # "running" => lockHolder # i

C1_OperationPanicked ==
    \E i \in Inst : proc[i].ipc = "panicked" /\ lastRet.inst = i /\ lastRet.res = "panic"

\* C2: with two engine instances on one database, only the holder of the
\* advisory lock runs an operation, so at most one runs at a time; a call made
\* while another instance holds the lock fails with AnotherInstanceRunning, its
\* instance never starts the operation, and the step changes neither the
\* persisted state, the ledger nor any schema object.
C2_OneInstanceProceeds ==
    /\ [](\A i \in Inst : proc[i].ipc = "running" => lockHolder = i)
    /\ [](lastRet.res = "AnotherInstanceRunning" =>
            /\ lockHolder \notin {0, lastRet.inst}
            /\ proc[lastRet.inst] = FreshProc)
    /\ [][(lastRet'.res = "AnotherInstanceRunning" /\ lastRet' # lastRet) =>
            UNCHANGED <<dbVars, lockHolder, proc>>]_vars

C2_SecondCallRefused ==
    /\ lastRet.res = "AnotherInstanceRunning"
    /\ \E j \in Inst : /\ proc[j].ipc = "running"
                       /\ proc[j].op.kind = "migrate"
                       /\ dirty

\* C3: an abort called while the persisted state is Completing writes nothing
\* (no action is aborted, no schema is dropped, the persisted state keeps its
\* migrations and indices) and returns the CompleteInProgress error.
C3_AbortRefusedWhileCompleting ==
    /\ \A i \in Inst :
        (proc[i].ipc = "running" /\ proc[i].op.kind = "abort"
            /\ proc[i].loaded.tag = "Completing")
        => ~dirty /\ dbState = proc[i].loaded
    /\ (lastRet.kind = "abort" /\ lastRet.from = "Completing")
        => /\ lastRet.res = "CompleteInProgress"
           /\ ~dirty
           /\ dbState.tag = "Completing"

C3_AbortOnCompleting ==
    /\ lastRet.kind = "abort"
    /\ lastRet.from = "Completing"
    /\ lastRet.res = "CompleteInProgress"
    /\ dbState.tag = "Completing"
    /\ artefacts # {}

\* C4 as amended: an abort called when the last write to the database was made
\* by complete undoes nothing, every step of it leaves the database as it is;
\* it returns the CompleteInProgress error when complete was interrupted
\* (Completing is persisted) and returns Ok, as a no-op, when complete ran to
\* the end (Idle is persisted).
C4_AbortAfterCompleteUndoesNothing ==
    [][\A i \in Inst :
        (OpStep(i) /\ proc[i].op.kind = "abort" /\ lastWriter = "complete")
        => /\ UNCHANGED dbVars
           /\ Returns(i, IF dbState.tag = "Completing" THEN "CompleteInProgress"
                         ELSE "Ok")]_vars

\* C4 as stated: an abort called when the last write to the database was made
\* by complete, whether complete ran to the end or was interrupted, undoes
\* nothing and returns an error.
C4_AbortAfterCompleteRejected ==
    [][\A i \in Inst :
        (OpStep(i) /\ proc[i].op.kind = "abort" /\ lastWriter = "complete")
        => /\ UNCHANGED dbVars
           /\ Returns(i, lastRet'.res)
           /\ lastRet'.res # "Ok"]_vars

C4_AbortAfterCompleteRanToEnd ==
    /\ lastRet.kind = "abort"
    /\ lastRet.from = "Idle"
    /\ lastRet.res = "Ok"
    /\ lastWriter = "complete"
    /\ ledger # <<>>
    /\ dbState = State_Idle

\* C5: a migrate called while InProgress{existing} is persisted, with a plan
\* whose not-yet-applied migrations do not have existing as a prefix, returns
\* DivergentHistory at once: the call writes nothing, so the persisted state
\* stays InProgress{existing}, no begin or abort runs and no schema is dropped.
C5_DivergentHistory ==
    [][\A i \in Inst :
        (OpStep(i) /\ MigrateWithoutPrefix(proc[i], "InProgress"))
        => /\ Returns(i, "DivergentHistory")
           /\ UNCHANGED dbVars
           /\ ~dirty'
           /\ dbState' = proc[i].loaded]_vars

C5_DivergentPlanRefused ==
    /\ lastRet.kind = "migrate"
    /\ lastRet.from = "InProgress"
    /\ lastRet.res = "DivergentHistory"
    /\ dbState.tag = "InProgress"
    /\ ~dirty

\* C6: a migrate called while Applying{existing} is persisted, with a plan
\* whose not-yet-applied migrations do not have existing as a prefix, fewer
\* migrations than existing included, returns DirtyApplying at once and
\* writes nothing, so the persisted state stays Applying{existing}.
C6_DirtyApplying ==
    [][\A i \in Inst :
        (OpStep(i) /\ MigrateWithoutPrefix(proc[i], "Applying"))
        => /\ Returns(i, "DirtyApplying")
           /\ UNCHANGED dbVars
           /\ ~dirty'
           /\ dbState' = proc[i].loaded]_vars

C6_ShorterPlanPanics ==
    /\ lastRet.kind = "migrate"
    /\ lastRet.from = "Applying"
    /\ lastRet.res = "panic"
    /\ ~dirty

\* C7: a migrate in which a begin failed, and in which no abort failed, ends
\* by returning the begin error, with Idle persisted and with no artefact left
\* of the actions whose begin ran in the call.
C7_FailedBeginCleanedUp ==
    (lastRet.failed /\ lastRet.res # "AbortFailed")
    => /\ lastRet.res = "MigrationFailed"
       /\ dbState = State_Idle
       /\ lastRet.leftover = {}

C7_FailedBeginAborted ==
    /\ lastRet.failed
    /\ lastRet.res = "MigrationFailed"
    /\ dbState = State_Idle
    /\ artefacts = {}
    /\ dirty

\* C8: when a complete called while InProgress{migrations} is persisted
\* returns Ok, the ledger is the ledger the call found followed by the names
\* of those migrations in their order, each once, Idle is persisted, and the
\* schema of the migration that was the last of the ledger is gone.
C8_LedgerAfterComplete ==
    [][\A i \in Inst :
        (Returns(i, "Ok") /\ proc[i].op.kind = "complete"
            /\ proc[i].loaded.tag = "InProgress")
        => /\ ledger' = proc[i].rows \o NamesOf(proc[i].loaded.migrations)
           /\ dbState' = State_Idle
           /\ current_migration(proc[i].rows) \notin schemas']_vars

C8_SecondMigrationCompleted ==
    /\ lastRet.kind = "complete"
    /\ lastRet.from = "InProgress"
    /\ lastRet.res = "Ok"
    /\ Len(ledger) = 2
    /\ lastRet.names = {ledger[2]}
    /\ ledger[1] \notin schemas
    /\ dbState = State_Idle

\* C9: when abort(All), called while Applying, InProgress or Aborting (with
\* whatever indices) is persisted, returns Ok, Idle is persisted and neither
\* an artefact nor the schema of any migration of the state it found is left.
C9_AbortAllCleansUp ==
    (lastRet.kind = "abort" /\ lastRet.range = Range_All /\ lastRet.res = "Ok"
        /\ lastRet.from \in {"Applying", "InProgress", "Aborting"})
    => /\ dbState = State_Idle
       /\ \A key \in artefacts : key[1] \notin lastRet.names
       /\ schemas \cap lastRet.names = {}

C9_InterruptedAbortResumed ==
    /\ lastRet.kind = "abort"
    /\ lastRet.range = Range_All
    /\ lastRet.res = "Ok"
    /\ lastRet.from = "Aborting"
    /\ lastRet.names # {}
    /\ dbState = State_Idle

\* C10: a migrate run again with the same plan after the process died in
\* migrate ends in one of two ways, when its plan agrees with the ledger, its
\* range names a migration of the plan, complete has not started and no begin
\* fails in it: it returns Ok with the migration brought to where an
\* uninterrupted run brings it (the persisted state is InProgress and every
\* action of its migrations has its artefact), or it returns DirtyApplying
\* having written nothing; and every artefact of an action begun in the run
\* belongs to a migration of the persisted state.
C10_RerunResumesOrDirty ==
    (/\ lastRet.rerun
     /\ ~lastRet.failed
     /\ lastRet.from # "Completing"
     /\ lastRet.res \notin {"InconsistentHistory", "MigrationNotFound"})
    => /\ \/ /\ lastRet.res = "Ok"
             /\ dbState.tag = "InProgress"
             /\ \A x \in 1..Len(dbState.migrations) :
                    \A a \in 1..Len(dbState.migrations[x].actions) :
                        <<dbState.migrations[x].name, a - 1>> \in artefacts
          \/ /\ lastRet.res = "DirtyApplying"
             /\ ~dirty
       /\ \A key \in lastRet.leftover : key[1] \in NameSet(dbState.migrations)

C10_RerunResumed ==
    /\ lastRet.rerun
    /\ lastRet.res = "Ok"
    /\ dbState.tag = "InProgress"
    /\ lastRet.leftover # {}

\* the keep index abort computes from the range of call p for the migrations
\* of the state it loaded, -1 when the range gives none
KeepIndex(p) ==
    LET ms == p.loaded.migrations IN
    CASE p.op.range.kind = "All" -> 0
      [] p.op.range.kind = "Number" ->
            IF p.op.range.n <= Len(ms) THEN Len(ms) - p.op.range.n ELSE 0 - 1
      [] OTHER -> Position(ms, p.op.range.name) - 1

\* call p is an abort that found migrations in flight and whose range keeps
\* some of them and not all
PartialAbort(p) ==
    /\ p.op.kind = "abort"
    /\ p.loaded.tag \in {"Applying", "InProgress", "Aborting"}
    /\ KeepIndex(p) > 0
    /\ KeepIndex(p) < Len(p.loaded.migrations)

\* C11: when an abort whose range gives a keep index k, 0 < k < number of
\* migrations in flight, returns Ok, the persisted state is InProgress with
\* exactly the first k of those migrations and the schema of the k-th exists.
C11_PartialAbortKeepsPrefix ==
    [][\A i \in Inst :
        (Returns(i, "Ok") /\ PartialAbort(proc[i]))
        => LET ms == proc[i].loaded.migrations
               k == KeepIndex(proc[i])
           IN  /\ dbState' = State_InProgress(SubSeq(ms, 1, k))
               /\ ms[k].name \in schemas']_vars

C11_PartialAbortReappliesAll ==
    /\ lastRet.kind = "abort"
    /\ lastRet.range = Range_Number(1)
    /\ lastRet.from = "InProgress"
    /\ lastRet.res = "Ok"
    /\ dbState.tag = "InProgress"
    /\ Len(dbState.migrations) = MaxNames
    /\ lastWriter = "abort"

\* the positions (migration index, action index) at which the method was
\* invoked, in the order of the log
Invocations(log, method) ==
    LET Is(e) == e[1] = method
        sel == SelectSeq(log, Is)
    IN  [x \in 1..Len(sel) |-> <<sel[x][2], sel[x][3]>>]

Reverse(s) == [x \in 1..Len(s) |-> s[Len(s) + 1 - x]]

\* position a comes before position b in plan order
Before(a, b) == a[1] < b[1] \/ (a[1] = b[1] /\ a[2] < b[2])

\* entries of the log that follow one another and are invocations of the
\* same method are in plan order (dir = 1) or in its reverse (dir = -1)
Ordered(log, method, dir) ==
    \A x \in 1..(Len(log) - 1) :
        (log[x][1] = method /\ log[x + 1][1] = method)
        => IF dir = 1
           THEN Before(<<log[x][2], log[x][3]>>, <<log[x + 1][2], log[x + 1][3]>>)
           ELSE Before(<<log[x + 1][2], log[x + 1][3]>>, <<log[x][2], log[x][3]>>)

\* C12: when a migrate, complete or abort run returns, the begin invocations
\* that follow one another in it are in plan order (migrations as supplied,
\* actions as declared), so are the complete invocations, the abort
\* invocations are in the reverse of plan order, and a migrate whose begin
\* failed and whose aborts succeeded has invoked abort at exactly the
\* positions at which it invoked begin, in reverse.
C12_InvocationOrder ==
    [][\A i \in Inst :
        (OpStep(i) /\ proc'[i].ipc = "ready")
        => LET log == proc[i].log IN
           /\ Ordered(log, "begin", 1)
           /\ Ordered(log, "complete", 1)
           /\ Ordered(log, "abort", 0 - 1)
           /\ (proc[i].op.kind = "migrate" /\ proc[i].pending > 0
                 /\ lastRet'.res = "MigrationFailed")
              => Invocations(log, "abort") = Reverse(Invocations(log, "begin"))]_vars

C12_FailedBeginNotAborted ==
    /\ lastRet.kind = "migrate"
    /\ lastRet.failed
    /\ lastRet.res = "MigrationFailed"
    /\ lastRet.leftover # {}

\* the ledger rows, in index order, match the first migrations provided
LedgerMatches(rows, provided) ==
    /\ Len(rows) <= Len(provided)
    /\ \A x \in 1..Len(rows) : rows[x] = provided[x].name

\* C13: remaining_migrations, on a ledger of any length (more rows than one
\* page included), returns the provided migrations after the first |ledger|
\* when every ledger row, in index order, matches the provided migration at
\* its position by name, and fails with InconsistentHistory when a name
\* differs or the provided list is shorter than the ledger.
C13_RemainingMigrations ==
    rm.pc = "done"
    => IF LedgerMatches(rm.rows, rm.provided)
       THEN /\ rm.res = "Ok"
            /\ rm.items = SubSeq(rm.provided, Len(rm.rows) + 1, Len(rm.provided))
       ELSE rm.res = "InconsistentHistory"

C13_MatchingLedgerRefused ==
    /\ rm.pc = "done"
    /\ Len(rm.rows) > PageLimit
    /\ LedgerMatches(rm.rows, rm.provided)
    /\ rm.res = "InconsistentHistory"

\* the number of migrations in progress in the state call p loaded
AlreadyInProgress(p) ==
    IF p.loaded.tag \in {"Applying", "InProgress"} THEN Len(p.loaded.migrations)
    ELSE 0

\* C14: every Applying or InProgress state a migrate called with Number(n)
\* persists holds at most n migrations more than were in progress in the
\* state the call found (none when it found Idle).
C14_NumberNarrows ==
    [][\A i \in Inst :
        (/\ OpStep(i)
         /\ proc[i].op.kind = "migrate"
         /\ proc[i].op.range.kind = "Number"
         /\ dbState' # dbState
         /\ dbState'.tag \in {"Applying", "InProgress"})
        => Len(dbState'.migrations) <= proc[i].op.range.n + AlreadyInProgress(proc[i])]_vars

C14_NumberIgnoredFromIdle ==
    /\ lastRet.kind = "migrate"
    /\ lastRet.range = Range_Number(1)
    /\ lastRet.from = "Idle"
    /\ lastRet.res = "Ok"
    /\ dbState.tag = "InProgress"
    /\ Len(dbState.migrations) = MaxNames

Retryable(outcome) == outcome \in {"55P03", "connection"}

\* C15: the statement is executed again only after an attempt that failed
\* with SQLSTATE 55P03 or with an error that is not a database error; any
\* other database error is returned by the attempt that got it; the
\* statement is attempted at most MAX_ATTEMPTS times, and an error of the
\* two retried kinds is returned only by the last of those attempts.
C15_RetryPolicy ==
    LET n == Len(rt.outcomes) IN
    /\ n <= MAX_ATTEMPTS
    /\ \A x \in 1..(n - 1) : Retryable(rt.outcomes[x])
    /\ (n > 0 /\ ~Retryable(rt.outcomes[n]))
        => rt.pc = "returned" /\ rt.res = rt.outcomes[n]
    /\ (rt.on = "Postgres" /\ rt.pc = "returned" /\ Retryable(rt.res))
        => n = MAX_ATTEMPTS /\ rt.res = rt.outcomes[n]
    /\ (rt.pc \in {"call", "sleep"} /\ n > 0) => Retryable(rt.outcomes[n])

C15_OtherErrorAfterRetries ==
    /\ rt.pc = "returned"
    /\ rt.res = "db_other"
    /\ Len(rt.outcomes) = MAX_ATTEMPTS - 1
    /\ \E x \in 1..Len(rt.outcomes) : rt.outcomes[x] = "55P03"
    /\ \E x \in 1..Len(rt.outcomes) : rt.outcomes[x] = "connection"

\* ---- action methods
\* the n-th and the next invocation are the same method of the same action
Repeated(n, method) ==
    /\ ph.hist[n].m = method
    /\ ph.hist[n + 1].m = method
    /\ ph.hist[n + 1].k = ph.hist[n].k

\* a method invoked again right after it succeeded succeeds and leaves the
\* database as the first invocation left it
Idempotent(method) ==
    \A n \in 1..(Len(ph.hist) - 1) :
        Repeated(n, method) /\ ph.hist[n].ok
            => ph.hist[n + 1].ok /\ ph.hist[n + 1].db = ph.hist[n].db

\* C16: begin is idempotent for every action type: a second begin with the
\* same context after a successful first begin succeeds and leaves the
\* database in the same state as after the first.
C16_BeginIdempotent == Idempotent("begin")

\* the second begin of add_foreign_key failed after the first succeeded, on
\* the temporary constraint the first one added
C16_SecondBeginOfForeignKeyFails ==
    \E n \in 1..(Len(ph.hist) - 1) :
        /\ Repeated(n, "begin")
        /\ ph.sub[ph.hist[n].k].type = "add_foreign_key"
        /\ ph.hist[n].ok
        /\ ~ph.hist[n + 1].ok

\* no begin of its action precedes the n-th invocation
NeverBegun(n) ==
    \A x \in 1..(n - 1) :
        ~(ph.hist[x].m = "begin" /\ ph.hist[x].k = ph.hist[n].k)

\* C17: abort is idempotent for every action type: abort invoked again with
\* the same context after a successful abort, or invoked without any
\* preceding begin, succeeds, and the repeated abort leaves the database in
\* the same state as the first.
C17_AbortIdempotent ==
    /\ Idempotent("abort")
    /\ \A n \in DOMAIN ph.hist :
          ph.hist[n].m = "abort" /\ NeverBegun(n) => ph.hist[n].ok

\* the abort of an action that was never begun failed: it names its table by
\* the new name of a rename that is not completed
C17_AbortWithoutBeginFails ==
    \E n \in DOMAIN ph.hist :
        /\ ph.hist[n].m = "abort"
        /\ NeverBegun(n)
        /\ ~ph.hist[n].ok
        /\ ph.sub[ph.hist[n].k].table \notin ph.hist[n].db.tables

\* C18: complete is idempotent for every action type: a second complete
\* with the same context after a successful complete succeeds and leaves the
\* database in the same state as after the first.
C18_CompleteIdempotent == Idempotent("complete")

\* the second complete of add_foreign_key failed after the first succeeded:
\* the temporary constraint was renamed by the first
C18_SecondCompleteOfForeignKeyFails ==
    \E n \in 1..(Len(ph.hist) - 1) :
        /\ Repeated(n, "complete")
        /\ ph.sub[ph.hist[n].k].type = "add_foreign_key"
        /\ ph.hist[n].ok
        /\ ~ph.hist[n + 1].ok

\* the database before the n-th invocation, and its objects without the rows
DbBefore(n) == IF n = 1 THEN ph.pre ELSE ph.hist[n - 1].db

Objects(db) == [db EXCEPT !.rows = NoObjects.rows]

OnlyWrites(from, to) == \A x \in from..to : ph.hist[x].m = "write"

\* the n-th invocation is a successful begin on the pre-migration database
\* and the m-th is the abort of the same action, only row writes around them
BeginThenAbort(n, m) ==
    /\ n < m
    /\ ph.hist[n].m = "begin"
    /\ ph.hist[n].ok
    /\ ph.hist[m].m = "abort"
    /\ ph.hist[m].k = ph.hist[n].k
    /\ OnlyWrites(1, n - 1)
    /\ OnlyWrites(n + 1, m - 1)

\* C19: abort is the reverse of begin: on every pre-migration state in which
\* begin succeeds, also one where the column, index or enum of the action
\* already existed, begin followed by abort restores the pre-migration set
\* of physical objects, and the rows written in between are kept.
C19_AbortReversesBegin ==
    \A n \in DOMAIN ph.hist, m \in DOMAIN ph.hist :
        BeginThenAbort(n, m)
            => /\ ph.hist[m].ok
               /\ Objects(ph.hist[m].db) = Objects(DbBefore(n))
               /\ ph.hist[m].db.rows = DbBefore(m).rows

\* begin found its enum, column or index in place and added nothing; abort
\* succeeded and dropped it
C19_AbortDropsWhatBeginFound ==
    \E n \in DOMAIN ph.hist, m \in DOMAIN ph.hist :
        /\ BeginThenAbort(n, m)
        /\ ph.hist[m].ok
        /\ Objects(ph.hist[n].db) = Objects(DbBefore(n))
        /\ \/ ph.hist[m].db.enums # DbBefore(n).enums
           \/ ph.hist[m].db.columns # DbBefore(n).columns
           \/ ph.hist[m].db.indexes # DbBefore(n).indexes

\* the methods invoked so far, as <<method, action>> pairs
Methods == [x \in DOMAIN ph.hist |-> <<ph.hist[x].m, ph.hist[x].k>>]

AllOk == \A x \in DOMAIN ph.hist : ph.hist[x].ok

IsRename(n) ==
    /\ ph.hist[n].m # "write"
    /\ ph.sub[ph.hist[n].k].type = "rename_table"

\* the renames A to B and B to A were begun and completed, as the actions of
\* one migration or one after the other
RoundTrip ==
    /\ Len(ph.sub) = 2
    /\ ph.sub[2].type = "rename_table"
    /\ Methods \in {<<<<"begin", 1>>, <<"begin", 2>>,
                      <<"complete", 1>>, <<"complete", 2>>>>,
                    <<<<"begin", 1>>, <<"complete", 1>>,
                      <<"begin", 2>>, <<"complete", 2>>>>}
    /\ AllOk

\* C20: rename_table changes only the overlay at begin: the physical table
\* keeps its name through begin and abort and is renamed only by complete;
\* rename_table(A to B) and rename_table(B to A) begun and completed restore
\* the initial physical name A.
C20_RenameTable ==
    /\ \A n \in DOMAIN ph.hist :
          IsRename(n) /\ ph.hist[n].m \in {"begin", "abort"}
              => ph.hist[n].ok /\ ph.hist[n].db = DbBefore(n)
    /\ \A n \in DOMAIN ph.hist :
          /\ IsRename(n)
          /\ ph.hist[n].m = "complete"
          /\ ph.hist[n].ok
          /\ ph.sub[ph.hist[n].k].table \in DbBefore(n).tables
          => /\ ph.sub[ph.hist[n].k].table \notin ph.hist[n].db.tables
             /\ ph.sub[ph.hist[n].k].to \in ph.hist[n].db.tables
    /\ Methods = <<<<"begin", 1>>>> /\ IsRename(1)
          => get_table(ph.schema, ph.sub[1].to) = ph.sub[1].table
    /\ RoundTrip => ph.db = ph.pre

\* the round trip happened on a database that has table A: B existed in
\* between and A is back
C20_RoundTripDone ==
    /\ RoundTrip
    /\ "A" \in ph.pre.tables
    /\ "B" \in ph.hist[3].db.tables
    /\ "A" \notin ph.hist[3].db.tables
    /\ ph.hist[2].m = "begin"
    /\ "A" \in ph.db.tables

\* ---- up trigger
\* C21: while add_column with an up transformation is in progress, a row
\* inserted or updated through the old schema (is_new_schema() false) gets
\* the new column set to the up expression evaluated on that row, and a row
\* written through the new schema (is_new_schema() true) keeps the value
\* the writer supplied.
C21_UpTrigger ==
    tg.last.kind # "none" =>
        LET row == tg.rows[tg.last.id]
        IN  IF tg.last.search_path = schema_name_for_migration(tg.target)
               \/ tg.last.setting = "YES"
            THEN row.column = tg.last.column
            ELSE row.column = up(row.name)

\* a row written through the new schema holds a supplied value that the up
\* expression would not have produced
C21_NewSchemaWriteKept ==
    /\ tg.last.kind = "update"
    /\ tg.last.search_path = schema_name_for_migration(tg.target)
    /\ tg.rows[tg.last.id].column = tg.last.column
    /\ tg.rows[tg.last.id].column # up(tg.rows[tg.last.id].name)
    /\ \E id \in DOMAIN tg.rows :
          id # tg.last.id /\ tg.rows[id].column = up(tg.rows[id].name)

\* ---- removals
\* the n-th invocation is a method of an action of the given type
IsOf(n, type) ==
    /\ ph.hist[n].m # "write"
    /\ ph.sub[ph.hist[n].k].type = type

\* the foreign key the action names is on its table in the database
HasForeignKey(a, db) ==
    \E c \in db.constraints :
        c.table = a.table /\ c.name = a.foreign_key /\ c.ref # ""

\* C22: remove_foreign_key.begin fails when the named constraint does not
\* exist on the table, and has no side effects; when it exists, the foreign
\* key stays in place through begin and abort and is dropped only by
\* complete.
C22_RemoveForeignKey ==
    \A n \in DOMAIN ph.hist :
        IsOf(n, "remove_foreign_key") =>
            LET a == ph.sub[ph.hist[n].k]
            IN  /\ ph.hist[n].m = "begin" =>
                    /\ ph.hist[n].ok = HasForeignKey(a, DbBefore(n))
                    /\ ph.hist[n].db = DbBefore(n)
                /\ ph.hist[n].m = "abort" =>
                    /\ ph.hist[n].ok
                    /\ ph.hist[n].db = DbBefore(n)
                /\ ph.hist[n].m = "complete" /\ ph.hist[n].ok =>
                    ~HasForeignKey(a, ph.hist[n].db)

\* the key was there after begin and after abort, and complete dropped it;
\* the next begin failed and changed nothing
C22_KeyDroppedByCompleteOnly ==
    /\ Len(ph.hist) = 4
    /\ IsOf(1, "remove_foreign_key")
    /\ Methods = <<<<"begin", 1>>, <<"abort", 1>>, <<"complete", 1>>,
                   <<"begin", 1>>>>
    /\ ph.hist[1].ok
    /\ HasForeignKey(ph.sub[1], ph.hist[2].db)
    /\ ph.hist[3].ok
    /\ ~HasForeignKey(ph.sub[1], ph.hist[3].db)
    /\ ~ph.hist[4].ok
    /\ ph.hist[4].db = ph.hist[3].db

\* ---- add_index
\* C23: add_index whose declared column list contains a column the table
\* does not have fails at begin and creates no index, also when some of
\* the declared columns do exist.
C23_IndexOnMissingColumn ==
    \A n \in DOMAIN ph.hist :
        /\ IsOf(n, "add_index")
        /\ ph.hist[n].m = "begin"
        /\ ~(ph.sub[ph.hist[n].k].columns
                \subseteq TableColumns(DbBefore(n), ph.sub[ph.hist[n].k].table))
        => ~ph.hist[n].ok /\ ph.hist[n].db = DbBefore(n)

\* begin succeeded and created the index, on the declared columns the table
\* has, although another declared column is missing
C23_IndexOnSomeColumns ==
    \E n \in DOMAIN ph.hist :
        /\ IsOf(n, "add_index")
        /\ ph.hist[n].m = "begin"
        /\ "nope" \in ph.sub[ph.hist[n].k].columns
        /\ "nope" \notin TableColumns(DbBefore(n), ph.sub[ph.hist[n].k].table)
        /\ ph.hist[n].ok
        /\ ph.hist[n].db.indexes # DbBefore(n).indexes

\* the object a remove action names is in the database
HasObject(a, db) ==
    CASE a.type = "remove_index" -> \E x \in db.indexes : x[2] = a.name
      [] a.type = "remove_enum" -> a.name \in db.enums
      [] a.type = "remove_table" -> a.table \in db.tables

IsRemoval(n) ==
    IsOf(n, "remove_index") \/ IsOf(n, "remove_enum") \/ IsOf(n, "remove_table")

\* C24: for remove_index, remove_table and remove_enum, begin and abort leave
\* the physical object untouched; it is dropped only by complete, and a
\* removed table is hidden from the views of the new schema from its begin
\* on.
C24_RemovedAtComplete ==
    /\ \A n \in DOMAIN ph.hist :
          IsRemoval(n) =>
              /\ ph.hist[n].m \in {"begin", "abort"} =>
                    ph.hist[n].ok /\ ph.hist[n].db = DbBefore(n)
              /\ ph.hist[n].m = "complete" /\ ph.hist[n].ok =>
                    ~HasObject(ph.sub[ph.hist[n].k], ph.hist[n].db)
    /\ \A n \in DOMAIN ph.hist :
          IsOf(n, "remove_table") /\ ph.hist[n].m = "begin" =>
              ph.sub[ph.hist[n].k].table \notin get_tables(ph.schema, ph.db)

\* the table was there after begin and after abort, hidden from the views,
\* and complete dropped it
C24_TableDroppedByCompleteOnly ==
    /\ Len(ph.hist) = 3
    /\ IsOf(1, "remove_table")
    /\ Methods = <<<<"begin", 1>>, <<"abort", 1>>, <<"complete", 1>>>>
    /\ HasObject(ph.sub[1], ph.hist[2].db)
    /\ ph.sub[1].table \notin get_tables(ph.schema, ph.hist[2].db)
    /\ ph.hist[3].ok
    /\ ~HasObject(ph.sub[1], ph.db)

\* ---- operations in the wrong state
\* what an operation returns on a persisted state in which it does not run,
\* "none" where it runs
Refusal(kind, tag) ==
    CASE kind = "migrate" /\ tag = "Aborting" -> "AbortInProgress"
      [] kind = "migrate" /\ tag = "Completing" -> "Ok"
      [] kind = "complete" /\ tag = "Aborting" -> "AbortInProgress"
      [] kind = "complete" /\ tag = "Applying" -> "PreviousMigrationFailed"
      [] kind = "complete" /\ tag = "Idle" -> "Ok"
      [] OTHER -> "none"

\* C25: an operation requested in the wrong FSM state has no side effects:
\* migrate in Aborting returns AbortInProgress and in Completing returns Ok;
\* complete in Aborting or Applying returns an error and in Idle returns Ok;
\* no action method is invoked, no schema is created or dropped and the
\* persisted state is unchanged.
C25_WrongStateNoEffect ==
    [][\A i \in Inst :
        (OpStep(i) /\ Refusal(proc[i].op.kind, proc[i].loaded.tag) # "none")
        => /\ Returns(i, Refusal(proc[i].op.kind, proc[i].loaded.tag))
           /\ proc[i].log = <<>>
           /\ proc[i].invoked = {}
           /\ dbVars' = dbVars
           /\ dbState' = proc[i].loaded
           /\ ~dirty']_vars

\* a migrate was refused on Aborting, which is still the persisted state
C25_MigrateRefusedOnAborting ==
    /\ lastRet.kind = "migrate"
    /\ lastRet.from = "Aborting"
    /\ lastRet.res = "AbortInProgress"
    /\ dbState.tag = "Aborting"
    /\ artefacts # {}

\* ---- the apply loop
\* instance i is in migrate between its save of Applying and its save of
\* InProgress
InApplyLoop(i) ==
    /\ proc[i].ipc = "running"
    /\ proc[i].pc \in {"m_helper", "m_begin", "m_views", "m_save_in_progress"}

\* C26: in every migrate run Applying{remaining} is persisted before the
\* first begin is invoked: no begin runs while the persisted state is Idle
\* or InProgress, and at every point of the apply loop the persisted state
\* is Applying with the full list being applied.
C26_CrashGuard ==
    \A i \in Inst :
        InApplyLoop(i) => dbState = State_Applying(proc[i].rem)

\* migrate is in its apply loop with one begin done and another to do
C26_BetweenBegins ==
    \E i \in Inst :
        /\ Running(i, "m_begin")
        /\ proc[i].log # <<>>
        /\ proc[i].mi = 1
        /\ dbState.tag = "Applying"
        /\ Len(dbState.migrations) = 2

\* ---- InProgress
\* every action of every migration of ms has been begun and not undone
AllBegun(ms) ==
    \A x \in 1..Len(ms) :
        \A j \in 1..Len(ms[x].actions) : <<ms[x].name, j - 1>> \in artefacts

\* C27: InProgress{remaining} is persisted only after begin has succeeded
\* for every action of every migration in remaining and the views schema of
\* the last migration has been created: whenever the persisted state is
\* InProgress{m}, that schema exists and reshape.is_new_schema() is bound to
\* the name of the last migration of m.
C27_InProgressHasSchema ==
    dbState.tag = "InProgress" =>
        LET m == dbState.migrations
        IN  /\ m # <<>>
            /\ AllBegun(m)
            /\ m[Len(m)].name \in schemas
            /\ helper = m[Len(m)].name

\* a migrate that extends the migrations in progress has dropped their
\* views schema while InProgress is still the persisted state
C27_SchemaDroppedInProgress ==
    /\ dbState.tag = "InProgress"
    /\ dbState.migrations[Len(dbState.migrations)].name \notin schemas
    /\ lastWriter = "migrate"
    /\ AllBegun(dbState.migrations)

\* ---- the overlay of a run
\* the overlay after the calls of h: update_schema of every action whose
\* begin succeeded, in the order of the calls
RECURSIVE OverlayOf(_)
OverlayOf(h) ==
    IF h = <<>> THEN <<>>
    ELSE LET e == h[Len(h)]
             before == OverlayOf(SubSeq(h, 1, Len(h) - 1))
         IN  IF e.m = "begin" /\ e.ok
             THEN update_schema(ph.sub[e.k], before)
             ELSE before

\* C28: an action's update_schema is applied to the overlay exactly when its
\* begin succeeded and before the next begin is invoked: every begin runs
\* against the cumulative overlay of the earlier actions whose begin
\* succeeded, a successful begin extends the overlay by its update_schema,
\* and a failed begin (and every other call) leaves the overlay unchanged.
C28_CumulativeOverlay ==
    [][LET e == ph'.hist[Len(ph'.hist)]
           seen == OverlayOf(ph.hist)
       IN  Len(ph'.hist) = Len(ph.hist) + 1 =>
               IF e.m = "begin"
               THEN LET r == begin(ph.sub[e.k], e.k, ph.db, seen)
                    IN  /\ ph.schema = seen
                        /\ e.ok = r.ok
                        /\ e.db = r.db
                        /\ ph'.schema = IF r.ok
                                        THEN update_schema(ph.sub[e.k], seen)
                                        ELSE seen
               ELSE ph'.schema = ph.schema]_vars

\* the begin of add_column on table B succeeded although the database has no
\* table of that name: the overlay of the rename before it names table A
C28_BeginThroughOverlay ==
    /\ Len(ph.sub) = 2
    /\ ph.sub[2].type = "add_column"
    /\ ph.sub[2].table \notin ph.pre.tables
    /\ Len(ph.hist) = 3
    /\ ph.hist[1] = [m |-> "begin", k |-> 2, ok |-> FALSE, db |-> ph.pre]
    /\ ph.hist[2].m = "begin" /\ ph.hist[2].k = 1 /\ ph.hist[2].ok
    /\ ph.hist[3].m = "begin" /\ ph.hist[3].k = 2 /\ ph.hist[3].ok
    /\ ph.schema = update_schema(ph.sub[2], update_schema(ph.sub[1], <<>>))

\* ---- resuming complete
\* the actions of the migrations ms, as (name, index of the action)
KeysOf(ms) ==
    UNION {{<<ms[x].name, j - 1>> : j \in 1..Len(ms[x].actions)} :
           x \in 1..Len(ms)}

\* C29: complete resumes from the saved (mig_i, act_i): when a complete
\* called while InProgress or Completing (with the indices an interrupted
\* complete saved) is persisted returns Ok, having appended the ledger and
\* saved Idle, complete has been invoked on every action of every migration
\* of the state it found.
C29_CompleteResumes ==
    [][\A i \in Inst :
        (Returns(i, "Ok") /\ proc[i].op.kind = "complete"
            /\ proc[i].loaded.tag \in {"InProgress", "Completing"})
        => /\ dbState' = State_Idle
           /\ ledger' = proc[i].rows \o NamesOf(proc[i].loaded.migrations)
           /\ KeysOf(proc[i].loaded.migrations) \subseteq completed']_vars

\* a complete that found Completing with saved indices has returned Ok
C29_InterruptedCompleteResumed ==
    /\ lastRet.kind = "complete"
    /\ lastRet.from = "Completing"
    /\ lastRet.res = "Ok"
    /\ lastRet.names # {}
    /\ dbState = State_Idle
    /\ \E key \in artefacts : key[1] \in lastRet.names

\* ---- resuming abort
\* the skip tests of the abort loop for action a of migration m under the
\* saved indices (lmi, lai)
SkippedOnResume(m, a, lmi, lai) ==
    \/ m >= lmi
    \/ m = lmi - 1 /\ a >= lai

\* C30: abort resumes from the saved (last_mig_i, last_act_i): whenever
\* Aborting is persisted, by a failed migrate or by a step of abort, the
\* saved indices read back by a later abort make it skip no begun action
\* that has not been aborted: every action of the state's migrations whose
\* artefacts are still there is one the abort loop invokes abort on.
C30_AbortResumes ==
    dbState.tag = "Aborting" =>
        \A x \in 1..Len(dbState.migrations) :
            \A j \in 1..Len(dbState.migrations[x].actions) :
                <<dbState.migrations[x].name, j - 1>> \in artefacts
                    => ~SkippedOnResume(x - 1, j - 1, dbState.i, dbState.j)

\* a step of abort has saved its indices while actions begun before the
\* aborted one still have their artefacts
C30_StepSavedWithWorkLeft ==
    /\ dbState.tag = "Aborting"
    /\ dbState.i < USIZE_MAX
    /\ lastWriter = "abort"
    /\ \E x \in 1..Len(dbState.migrations) :
            <<dbState.migrations[x].name, 0>> \in artefacts

\* ---- migrate on top of a migration in progress
\* call p as it was made: its plan and its range
AsCalled(p) == [p EXCEPT !.provided = p.op.plan, !.range = p.op.range]

\* call p is a migrate that found InProgress{existing} and whose plan has
\* more not-yet-applied migrations than existing, existing being their prefix
ExtendsInProgress(p) ==
    /\ p.op.kind = "migrate"
    /\ p.loaded.tag = "InProgress"
    /\ p.loaded.migrations # <<>>
    /\ Remaining(AsCalled(p)).ok
    /\ Len(Remaining(AsCalled(p)).rest) > Len(p.loaded.migrations)
    /\ SliceEq(p.loaded.migrations,
               SubSeq(Remaining(AsCalled(p)).rest, 1, Len(p.loaded.migrations)))

\* the migrations such a call is to bring to InProgress
Extended(p) ==
    NarrowNumber(p.op.range, Remaining(AsCalled(p)).rest, p.loaded.migrations)

\* the action whose begin failed in call p belongs to a migration that was
\* not in progress when the call was made
FailedInNew(p) ==
    /\ p.pending > 0
    /\ \E x \in DOMAIN p.log :
        /\ p.log[x][1] = "begin"
        /\ \A y \in (x + 1)..Len(p.log) : p.log[y][1] # "begin"
        /\ p.log[x][2] >= Len(p.loaded.migrations)

\* C31: migrate called in InProgress{existing} with a plan whose remaining
\* migrations strictly extend existing drops the schema of the last of
\* existing, re-runs the migrations through Applying and, unless the begin of
\* an action of a new migration fails, returns Ok with InProgress{remaining}
\* persisted, the schema of the last of remaining created and the artefacts
\* of every action of existing still in place.
C31_ExtendInProgress ==
    [][\A i \in Inst :
        (/\ OpStep(i)
         /\ proc'[i].ipc = "ready"
         /\ lastRet'.inst = i
         /\ ExtendsInProgress(proc[i])
         /\ ~FailedInNew(proc[i]))
        => LET existing == proc[i].loaded.migrations
               remaining == Extended(proc[i])
           IN  /\ lastRet'.res = "Ok"
               /\ dbState' = State_InProgress(remaining)
               /\ remaining[Len(remaining)].name \in schemas'
               /\ existing[Len(existing)].name # remaining[Len(remaining)].name
                    => existing[Len(existing)].name \notin schemas'
               /\ KeysOf(existing) \subseteq artefacts']_vars

\* a migrate that found InProgress{[M1]} has returned Ok with two migrations
\* in progress
C31_Extended ==
    /\ lastRet.kind = "migrate"
    /\ lastRet.from = "InProgress"
    /\ lastRet.res = "Ok"
    /\ dbState.tag = "InProgress"
    /\ Len(dbState.migrations) = 2
    /\ Cardinality(lastRet.names) = 1
    /\ dbState.migrations[2].name \in schemas
    /\ KeysOf(dbState.migrations) \subseteq artefacts

\* ---- the end of complete
NoDuplicates(s) == \A x, y \in DOMAIN s : x # y => s[x] # s[y]

\* C32: the ledger append and the transition to Idle at the end of complete
\* are one atomic step, crashes included: the ledger changes only in the step
\* that takes the persisted state from Completing to Idle, and that step
\* appends exactly the names of the state's migrations; while Completing is
\* persisted none of its migrations is in the ledger; and no name is in the
\* ledger twice.
C32_AtomicCompletion ==
    /\ [](/\ NoDuplicates(ledger)
          /\ dbState.tag = "Completing"
                => NameSet(dbState.migrations)
                        \cap {ledger[x] : x \in DOMAIN ledger} = {})
    /\ [][(ledger' # ledger \/ (dbState.tag = "Completing" /\ dbState'.tag = "Idle"))
            => /\ dbState.tag = "Completing"
               /\ dbState' = State_Idle
               /\ ledger' = ledger \o NamesOf(dbState.migrations)]_vars

\* a second complete has appended to a ledger that was not empty, after an
\* interrupted complete
C32_TwoCompletions ==
    /\ Len(ledger) = 2
    /\ dbState = State_Idle
    /\ lastRet.kind = "complete"
    /\ lastRet.res = "Ok"
    /\ lastRet.from = "Completing"

\* ---- the time spent sleeping
\* wait n as the claim states it, and the longest n sleeps can take together:
\* each the wait and the largest jitter below half of it
StatedWait(n) == Min(3200, 100 * Pow(2, n - 1))

RECURSIVE LongestSleeps(_)
LongestSleeps(n) ==
    IF n = 0 THEN 0
    ELSE LongestSleeps(n - 1) + StatedWait(n) + (StatedWait(n) \div 2) - 1

\* C33: retries are bounded: with 10 attempts, wait n = min(3200ms,
\* 100ms * 2^(n-1)) and a jitter below half that wait, the retry loop sleeps
\* at most nine times for one statement, for a total of at most 23,841 ms
\* (15,900 ms of waits and 7,941 ms of jitter).
C33_TotalSleep ==
    /\ rt.attempts <= MAX_ATTEMPTS
    /\ rt.slept + rt.wait <= LongestSleeps(rt.attempts)
    /\ LongestSleeps(MAX_ATTEMPTS - 1) = 23841

\* C33 as stated: the total time the retry loop sleeps for one statement is
\* at most about 9 seconds
C33_NineSeconds == rt.slept + rt.wait < 10000

\* the tenth attempt has failed after nine sleeps of the longest duration
C33_SleptLongest ==
    /\ rt.pc = "returned"
    /\ Len(rt.outcomes) = MAX_ATTEMPTS
    /\ rt.slept = LongestSleeps(MAX_ATTEMPTS - 1)

\* ---- statements on either connection
\* C34: the retry policy wraps every statement the engine executes: a
\* statement that fails with lock_not_available is executed again, whether
\* it is run on the plain connection or on a Transaction, and its error is
\* returned only after the tenth attempt.
C34_RetryOnEveryConnection ==
    (rt.pc = "returned" /\ rt.res = "55P03")
        => Len(rt.outcomes) = MAX_ATTEMPTS

\* a statement run on a Transaction has returned lock_not_available
C34_TransactionNotRetried ==
    /\ rt.on = "Transaction"
    /\ rt.pc = "returned"
    /\ rt.res = "55P03"
    /\ rt.outcomes = <<"55P03">>

\* ---- equality of migrations
\* b has the actions of a and more after them
StrictPrefix(a, b) ==
    /\ Len(a.actions) < Len(b.actions)
    /\ \A x \in 1..Len(a.actions) : a.actions[x] = b.actions[x]

TableOf(schema, table_name) == table_change_index(schema, table_name)

ChangesOf(schema, table_name) ==
    IF TableOf(schema, table_name) = 0 THEN <<>>
    ELSE schema[TableOf(schema, table_name)].column_changes

\* column is a shadowed predecessor or a removed column under the changes
Omitted(changes, column) ==
    \E x \in DOMAIN changes :
        \/ \E y \in 1..(Len(changes[x].backing_columns) - 1) :
                changes[x].backing_columns[y] = column
        \/ changes[x].removed /\ real_name(changes[x]) = column

\* the current names of the changes, not removed, whose last backing column
\* is column
CurrentNames(changes, column) ==
    {changes[x].current_name :
        x \in {y \in DOMAIN changes :
                ~changes[y].removed /\ real_name(changes[y]) = column}}

\* C36: for every overlay reachable by change_table and change_column with
\* set_name, set_column and set_removed, backing_columns is never empty and
\* get_table(logical_name) resolves the table through current_name to its
\* real_name (the name itself when there is no entry) and returns the
\* physical columns in ordinal order, each with its real name; when the
\* table has an entry, the shadowed predecessors and the removed columns of
\* its column changes are omitted, every other column is returned, and a
\* column that is the last backing column of a change is exposed under that
\* change's current_name, any other under its own name.
C36_GetTable ==
    /\ ov.pc # "off" =>
            \A x \in DOMAIN ov.schema :
                \A y \in DOMAIN ov.schema[x].column_changes :
                    ov.schema[x].column_changes[y].backing_columns # <<>>
    /\ ov.pc = "looked" =>
        LET real == get_table(ov.schema, ov.asked)
            changes == ChangesOf(ov.schema, ov.asked)
            out == ov.res.columns
            returned == {out[x].real_name : x \in DOMAIN out}
            is_returned(column) == column \in returned
        IN  /\ ov.res.real_name = real
            /\ Len(out) = Cardinality(returned)
            /\ SelectSeq(real_columns(real), is_returned)
                    = [x \in DOMAIN out |-> out[x].real_name]
            /\ TableOf(ov.schema, ov.asked) # 0 =>
                /\ \A x \in DOMAIN real_columns(real) :
                        is_returned(real_columns(real)[x])
                            <=> ~Omitted(changes, real_columns(real)[x])
                /\ \A x \in DOMAIN out :
                        IF CurrentNames(changes, out[x].real_name) = {}
                        THEN out[x].name = out[x].real_name
                        ELSE out[x].name \in CurrentNames(changes, out[x].real_name)

\* a table looked up by the current name of an entry that is not the first
\* with its real name
C36_TwoEntriesOneTable ==
    /\ ov.pc = "looked"
    /\ TableOf(ov.schema, ov.asked) # 0
    /\ TableOf(ov.schema, ov.asked)
            # real_name_index(ov.schema, get_table(ov.schema, ov.asked))
    /\ \E x \in DOMAIN ChangesOf(ov.schema, ov.asked) :
            ChangesOf(ov.schema, ov.asked)[x].removed

\* ---- termination of migrate
\* the steps of migrate itself, as opposed to those of the abort it calls
MigratePcs ==
    {"m_entry", "m_drop_existing", "m_save_applying", "m_helper", "m_begin",
     "m_views", "m_save_in_progress"}

\* C37: migrate terminates when the begin of an action fails, at any
\* position of the plan: the call goes from the failed begin to abort and
\* from abort to its return with the error; abort does not enter migrate
\* again, which would invoke the failing begin again and so on without end,
\* and the call does not fail on index arithmetic.
C37_MigrateTerminates ==
    /\ \A i \in Inst :
        (proc[i].ipc = "running" /\ proc[i].op.kind = "migrate"
            /\ proc[i].pending > 0)
        => proc[i].pc \notin MigratePcs
    /\ (lastRet.kind = "migrate" /\ lastRet.failed) => lastRet.res # "panic"

\* after a failed begin and an abort that aborted nothing, migrate is about
\* to invoke the same begin again
C37_SameBeginAgain ==
    \E i \in Inst :
        /\ Running(i, "m_begin")
        /\ proc[i].op.kind = "migrate"
        /\ proc[i].pending > 0
        /\ proc[i].log # <<>>
        /\ proc[i].log[Len(proc[i].log)] = <<"begin", proc[i].mi, proc[i].ai>>

\* the step of instance i invoked complete or abort on an action whose
\* begin has run and is not undone
InvokedOnBegun(i) ==
    /\ Len(proc'[i].log) = Len(proc[i].log) + 1
    /\ LET e == proc'[i].log[Len(proc'[i].log)] IN
        /\ e[1] \in {"complete", "abort"}
        /\ <<proc[i].rem[e[2] + 1].name, e[3]>> \in artefacts

\* the context <<name, action index, migration index>> of that invocation
InvokedContext(i) ==
    LET e == proc'[i].log[Len(proc'[i].log)]
    IN  <<proc[i].rem[e[2] + 1].name, e[3], e[2]>>

\* the indices the contexts are compared on: those of the runs, and numbers
\* around the padding width
SampleIndices == {0, 1, 2, 10, 11, 101, 999, 1000, 9999, 10000, 10001, 100000}

\* C38: every complete and every abort of an action whose begin has run and is
\* not undone is invoked with the (migration_index, action_index) of that
\* begin, in the same call or in a later one, and no other pair of indices
\* has the prefix of a context that a begin was given
C38_StableContext ==
    /\ [][\A i \in Inst : InvokedOnBegun(i) => InvokedContext(i) \in begun]_vars
    /\ [](\A c \in begun : \A mi \in SampleIndices, ai \in SampleIndices :
            prefix_text(mi, ai) = prefix_text(c[3], c[2])
            => (mi = c[3] /\ ai = c[2]))

\* C38 witness: a call of complete, which did not begin the action, is about
\* to invoke it at the second migration of the list, and its begin was given
\* these indices
C38_LaterCallSameContext ==
    \E i \in Inst :
        /\ Running(i, "c_loop") /\ proc[i].op.kind = "complete"
        /\ LET n == NextComplete(proc[i], proc[i].mi, proc[i].ai) IN
            /\ ~n.done /\ n.mi = 1
            /\ <<proc[i].rem[n.mi + 1].name, n.ai, n.mi>> \in begun

\* C39: abort (range All) started from Applying, InProgress or Aborting, and
\* complete started from InProgress or Completing, ends with Idle persisted
\* when no abort or complete of an action fails and the command is run again
\* after each of finitely many interruptions
C39_Progress ==
    (lv.cmd # "none") ~> (dbState.tag = "Idle" /\ proc[Solo].ipc = "ready")

\* C39 witness: the command was interrupted twice, run again each time, and
\* has returned Ok with Idle persisted
C39_IdleAfterInterruptions ==
    /\ lv.cmd # "none" /\ lv.interruptions = MaxInterruptions
    /\ dbState.tag = "Idle" /\ proc[Solo].ipc = "ready"
    /\ lastRet.res = "Ok"

\* the step of instance i is a complete call returning the error of the
\* complete of the action at (mi, ai)
CompleteFailedAt(i, mi, ai) ==
    /\ Running(i, "c_loop")
    /\ LET n == NextComplete(proc[i], proc[i].mi, proc[i].ai)
       IN  ~n.done /\ n.mi = mi /\ n.ai = ai
    /\ proc'[i].ipc = "ready"
    /\ lastRet'.res = "CompleteFailed"

\* the first action a complete call invokes when it loads the state st
FirstOnResume(st) ==
    NextComplete([FreshProc EXCEPT !.rem = st.migrations,
                                   !.lmi = st.i, !.lai = st.j], 0, 0)

\* C40: when the complete of an action returns an error, the call returns
\* it, the persisted state stays Completing, the ledger and the helper
\* function are as they were, and the saved indices make the next complete
\* call invoke the failed action first
C40_CompleteError ==
    [][\A i \in Inst : \A mi \in 0..(MaxNames - 1), ai \in {0, 1} :
        CompleteFailedAt(i, mi, ai)
        => /\ dbState'.tag = "Completing"
           /\ ledger' = ledger
           /\ helper' = helper
           /\ FirstOnResume(dbState')
                = [done |-> FALSE, mi |-> mi, ai |-> ai]]_vars

\* C40 witness: a complete call has returned the error of an action's
\* complete after another action of the same migration was completed, the
\* state is Completing and the helper function is installed
C40_FailedAfterFirstAction ==
    /\ lastRet.kind = "complete" /\ lastRet.res = "CompleteFailed"
    /\ dbState.tag = "Completing" /\ dbState.i > 0
    /\ helper # 0
    /\ completed # {}

====
